---- MODULE Spec2Model ----
(***************************************************************************)
(* Model of the NodeMation workflow builder: the in-memory workflow state  *)
(* manager (src/workflow/state.ts), the workflow validator                 *)
(* (src/workflow/validator.ts), the tool surface (src/tools/index.ts) and  *)
(* the generation loop (src/agent/workflow-builder.ts).                    *)
(*                                                                         *)
(* Conventions                                                             *)
(*   - a JavaScript Map is a sequence of entries in insertion order;       *)
(*   - an optional value (x?: T) is a sequence, <<>> when omitted and      *)
(*     <<v>> when given;                                                   *)
(*   - a text built from a template is the sequence of its fragments.      *)
(***************************************************************************)
EXTENDS Integers, Sequences, FiniteSets, TLC

VARIABLES
    nodes,          \* WorkflowStateManager.nodes: Map<string, N8nNode>
    connections,    \* WorkflowStateManager.connections: Map<string, InternalConnection[]>
    nodeCounter,    \* WorkflowStateManager.nodeCounter
    call,           \* the last State Manager call and its outcome (observation)
    issued,         \* the ids returned by successful addNode calls since the last reset
    pc,             \* where buildWorkflow stands: "idle", "turn", "tools" or "done"
    turnCount,      \* buildWorkflow's turnCount
    validationAttempts, \* buildWorkflow's validationAttempts
    maxRetries,     \* buildWorkflow's maxRetries
    n8nClient,      \* tools: whether n8nClient is not null
    messages,       \* buildWorkflow's messages, the history sent to the oracle
    pending,        \* the tool invocations of the response being processed
    toolResults,    \* buildWorkflow's toolResults
    result,         \* the BuildResult returned, once pc = "done"
    oracleHabit,    \* how the oracle answers after its scripted turns
    oracleCalls,    \* how many times the oracle was called in this build
    validatorRuns,  \* how many times the build called validateWorkflow
    executed,       \* the ids of the tool invocations executed, in order
    remoteCalls,    \* how many calls the build's tools made to the external service
    given,          \* the input of a function that is examined on its own
    returned,       \* what that function returned for it, <<>> before the call
    conversationLog, \* buildWorkflow's conversationLog, returned in the BuildResult
    session         \* runInteractiveMode: the pending question, lastBuildResult and
                    \* the builds in flight

smVars == <<nodes, connections, nodeCounter>>

buildVars == <<pc, turnCount, validationAttempts, maxRetries, n8nClient, messages,
               pending, toolResults, result, oracleHabit, oracleCalls, validatorRuns,
               executed, remoteCalls, conversationLog, session>>

pureVars == <<given, returned>>

\* everything but the function under examination
programVars == <<nodes, connections, nodeCounter, call, issued, buildVars>>

-----------------------------------------------------------------------------
(* Bounds of the model and the input domains.                              *)

\* no more than this many edges are stored in the whole graph
MaxEdges == 2
\* addNode is not called again once the ID counter has reached this value
MaxNodeCounter == 3
\* the oracle chooses its response freely during this many turns of a build
MaxScriptedTurns == 2

Names == {"Webhook", "Slack", "Credential Sync"}
\* a node type is the sequence of its namespace prefix and its local name
GoodType == <<"n8n-nodes-base.", "webhook">>
PlainType == <<"n8n-nodes-base.", "set">>
BadType == <<"invalid-type">>
OutputChoices == {<<>>, <<0>>, <<1>>, <<-2>>}
InputChoices == {<<>>, <<0>>, <<1>>}

\* the inputs of addNode: one node type per name
TypeOfName(name) ==
    CASE name = "Webhook" -> GoodType
      [] name = "Slack" -> PlainType
      [] OTHER -> BadType

AddNodeInputs ==
    {[name |-> n, type |-> TypeOfName(n), typeVersion |-> 1,
      parameters |-> <<>>, credentials |-> <<>>] : n \in Names}

\* the inputs of connectNodes the State Manager is driven with: every pair of
\* names with the defaults, and from "Webhook" to "Slack" every output or input
\* choice
ConnectNodesInputs ==
    [sourceNode : Names, targetNode : Names, sourceOutput : {<<>>},
     targetInput : {<<>>}, connectionType : {<<>>}]
    \cup
    [sourceNode : {"Webhook"}, targetNode : {"Slack"}, sourceOutput : OutputChoices,
     targetInput : {<<>>}, connectionType : {<<>>}]
    \cup
    [sourceNode : {"Webhook"}, targetNode : {"Slack"}, sourceOutput : {<<>>},
     targetInput : InputChoices, connectionType : {<<>>}]

\* the inputs the claims quantify over: every combination, also names the graph
\* never holds
AnyName == Names \cup {"NonExistent"}

AnyAddNodeInputs ==
    [name : AnyName, type : {GoodType, PlainType, BadType}, typeVersion : {1, 0},
     parameters : {<<>>}, credentials : {<<>>}]

\* present and missing endpoints, and one edge on another output
EndpointInputs ==
    [sourceNode : AnyName, targetNode : AnyName, sourceOutput : {<<>>},
     targetInput : {<<>>}, connectionType : {<<>>}]
    \cup
    [sourceNode : {"Webhook"}, targetNode : {"Slack"}, sourceOutput : {<<1>>},
     targetInput : {<<>>}, connectionType : {<<>>}]

\* the default and the explicit 0 between any two names, and every output and
\* input choice between two of them
TupleInputs ==
    [sourceNode : Names, targetNode : Names, sourceOutput : {<<>>, <<0>>},
     targetInput : {<<>>}, connectionType : {<<>>}]
    \cup
    [sourceNode : {"Webhook"}, targetNode : {"Slack"}, sourceOutput : OutputChoices,
     targetInput : {<<>>}, connectionType : {<<>>}]
    \cup
    [sourceNode : {"Webhook"}, targetNode : {"Slack"}, sourceOutput : {<<>>},
     targetInput : InputChoices, connectionType : {<<>>}]

-----------------------------------------------------------------------------
(* Helpers for Map-as-sequence and arrays.                                 *)

Range(s) == {s[i] : i \in 1..Len(s)}

\* Math.max over a non-empty set of integers
MaxOf(S) == CHOOSE m \in S : \A x \in S : x <= m

\* this.nodes.has(name)
HasNode(ns, name) == \E i \in 1..Len(ns) : ns[i].name = name

\* this.nodes.get(name), for a name the map has
getNode(ns, name) == ns[CHOOSE i \in 1..Len(ns) : ns[i].name = name]

\* this.connections.has(source)
HasConns(cs, source) == \E i \in 1..Len(cs) : cs[i].source = source

\* this.connections.get(source) || []
ConnsOf(cs, source) ==
    IF HasConns(cs, source)
    THEN cs[CHOOSE i \in 1..Len(cs) : cs[i].source = source].conns
    ELSE <<>>

\* this.connections.set(source, list): an existing key keeps its place
SetConns(cs, source, list) ==
    IF HasConns(cs, source)
    THEN [i \in 1..Len(cs) |->
            IF cs[i].source = source THEN [source |-> source, conns |-> list] ELSE cs[i]]
    ELSE Append(cs, [source |-> source, conns |-> list])

\* x || 0 for an optional number (undefined and 0 both give 0)
OrZero(opt) == IF opt = <<>> \/ opt = <<0>> THEN 0 ELSE opt[1]

\* x || 'main' for an optional connection type
OrMain(opt) == IF opt = <<>> THEN "main" ELSE opt[1]

\* x || {} for an optional record
OrEmpty(opt) == IF opt = <<>> THEN <<>> ELSE opt[1]

\* `node_${n}`
NodeId(n) == <<"node_", n>>

-----------------------------------------------------------------------------
(* WorkflowStateManager: each method maps a state st = [nodes, connections,*)
(* nodeCounter] and its input to the outcome: threw (an Error was thrown), *)
(* message (the Error's text), st (the state afterwards) and the value     *)
(* returned.                                                               *)

State(ns, cs, ctr) == [nodes |-> ns, connections |-> cs, nodeCounter |-> ctr]

\* position of a node added when the map holds nodeIndex nodes
GridPosition(nodeIndex) ==
    <<100 + (nodeIndex % 4) * 250, 100 + (nodeIndex \div 4) * 150>>

\* addNode taking the next ID before it looks for a duplicate name
addNode_CountsFirst(st, input) ==
    LET id == st.nodeCounter + 1
        node == [id |-> NodeId(id), name |-> input.name, type |-> input.type,
                 typeVersion |-> input.typeVersion,
                 position |-> GridPosition(Len(st.nodes)),
                 parameters |-> OrEmpty(input.parameters), credentials |-> input.credentials]
    IN  IF HasNode(st.nodes, input.name)
        THEN [threw |-> TRUE,
              message |-> <<"Node with name \"", input.name, "\" already exists">>,
              st |-> State(st.nodes, st.connections, id), node |-> <<>>]
        ELSE [threw |-> FALSE, message |-> <<>>,
              st |-> State(Append(st.nodes, node), st.connections, id),
              node |-> <<node>>]

\* addNode numbering a node by the size of the map instead of the counter
addNode_IdFromSize(st, input) ==
    IF HasNode(st.nodes, input.name)
    THEN [threw |-> TRUE,
          message |-> <<"Node with name \"", input.name, "\" already exists">>,
          st |-> st, node |-> <<>>]
    ELSE LET id == Len(st.nodes) + 1
             node == [id |-> NodeId(id), name |-> input.name, type |-> input.type,
                      typeVersion |-> input.typeVersion,
                      position |-> GridPosition(Len(st.nodes)),
                      parameters |-> OrEmpty(input.parameters),
                      credentials |-> input.credentials]
         IN  [threw |-> FALSE, message |-> <<>>,
              st |-> State(Append(st.nodes, node), st.connections, st.nodeCounter + 1),
              node |-> <<node>>]

addNode(st, input) ==
    IF HasNode(st.nodes, input.name)
    THEN [threw |-> TRUE,
          message |-> <<"Node with name \"", input.name, "\" already exists">>,
          st |-> st, node |-> <<>>]
    ELSE LET id == st.nodeCounter + 1
             node == [id |-> NodeId(id),
                      name |-> input.name,
                      type |-> input.type,
                      typeVersion |-> input.typeVersion,
                      position |-> GridPosition(Len(st.nodes)),
                      parameters |-> OrEmpty(input.parameters),
                      credentials |-> input.credentials]
         IN  [threw |-> FALSE, message |-> <<>>,
              st |-> State(Append(st.nodes, node), st.connections, id),
              node |-> <<node>>]

\* removeNode dropping the node and its outgoing edges only
removeNode_KeepsIncoming(st, name) ==
    IF ~HasNode(st.nodes, name)
    THEN [st |-> st, ret |-> FALSE]
    ELSE LET keepNode(n) == n.name # name
             notSource(e) == e.source # name
         IN  [st |-> State(SelectSeq(st.nodes, keepNode),
                           SelectSeq(st.connections, notSource),
                           st.nodeCounter),
              ret |-> TRUE]

\* removeNode that leaves the connections going out of the removed node
removeNode_KeepsOutgoing(st, name) ==
    IF ~HasNode(st.nodes, name)
    THEN [st |-> st, ret |-> FALSE]
    ELSE LET keepNode(n) == n.name # name
             keepEdge(c) == c.target # name
             filtered == [i \in 1..Len(st.connections) |->
                            [source |-> st.connections[i].source,
                             conns |-> SelectSeq(st.connections[i].conns, keepEdge)]]
             nonEmpty(e) == e.conns # <<>>
         IN  [st |-> State(SelectSeq(st.nodes, keepNode),
                           SelectSeq(filtered, nonEmpty),
                           st.nodeCounter),
              ret |-> TRUE]

removeNode(st, name) ==
    IF ~HasNode(st.nodes, name)
    THEN [st |-> st, ret |-> FALSE]
    ELSE LET keepNode(n) == n.name # name
             notSource(e) == e.source # name
             keepEdge(c) == c.target # name
             afterDelete == SelectSeq(st.connections, notSource)
             filtered == [i \in 1..Len(afterDelete) |->
                            [source |-> afterDelete[i].source,
                             conns |-> SelectSeq(afterDelete[i].conns, keepEdge)]]
             nonEmpty(e) == e.conns # <<>>
         IN  [st |-> State(SelectSeq(st.nodes, keepNode),
                           SelectSeq(filtered, nonEmpty),
                           st.nodeCounter),
              ret |-> TRUE]

\* the edge connectNodes stores for an input
EdgeOf(input) ==
    [target |-> input.targetNode,
     sourceOutput |-> OrZero(input.sourceOutput),
     targetInput |-> OrZero(input.targetInput),
     connectionType |-> OrMain(input.connectionType)]

\* connectNodes without the check of the target node
connectNodes_NoTargetCheck(st, input) ==
    IF ~HasNode(st.nodes, input.sourceNode)
    THEN [threw |-> TRUE,
          message |-> <<"Source node \"", input.sourceNode, "\" not found">>,
          st |-> st]
    ELSE LET existing == ConnsOf(st.connections, input.sourceNode)
             duplicate == \E i \in 1..Len(existing) :
                            /\ existing[i].target = input.targetNode
                            /\ existing[i].sourceOutput = OrZero(input.sourceOutput)
                            /\ existing[i].targetInput = OrZero(input.targetInput)
         IN  IF duplicate
             THEN [threw |-> TRUE,
                   message |-> <<"Connection from \"", input.sourceNode, "\" to \"",
                                 input.targetNode, "\" already exists">>,
                   st |-> st]
             ELSE [threw |-> FALSE, message |-> <<>>,
                   st |-> State(st.nodes,
                                SetConns(st.connections, input.sourceNode,
                                         Append(existing, EdgeOf(input))),
                                st.nodeCounter)]

\* connectNodes comparing only the target when it looks for a duplicate
connectNodes_DuplicateByTarget(st, input) ==
    IF ~HasNode(st.nodes, input.sourceNode)
    THEN [threw |-> TRUE,
          message |-> <<"Source node \"", input.sourceNode, "\" not found">>,
          st |-> st]
    ELSE IF ~HasNode(st.nodes, input.targetNode)
    THEN [threw |-> TRUE,
          message |-> <<"Target node \"", input.targetNode, "\" not found">>,
          st |-> st]
    ELSE LET existing == ConnsOf(st.connections, input.sourceNode)
             duplicate == \E i \in 1..Len(existing) :
                            existing[i].target = input.targetNode
         IN  IF duplicate
             THEN [threw |-> TRUE,
                   message |-> <<"Connection from \"", input.sourceNode, "\" to \"",
                                 input.targetNode, "\" already exists">>,
                   st |-> st]
             ELSE [threw |-> FALSE, message |-> <<>>,
                   st |-> State(st.nodes,
                                SetConns(st.connections, input.sourceNode,
                                         Append(existing, EdgeOf(input))),
                                st.nodeCounter)]

connectNodes(st, input) ==
    IF ~HasNode(st.nodes, input.sourceNode)
    THEN [threw |-> TRUE,
          message |-> <<"Source node \"", input.sourceNode, "\" not found">>,
          st |-> st]
    ELSE IF ~HasNode(st.nodes, input.targetNode)
    THEN [threw |-> TRUE,
          message |-> <<"Target node \"", input.targetNode, "\" not found">>,
          st |-> st]
    ELSE LET existing == ConnsOf(st.connections, input.sourceNode)
             duplicate == \E i \in 1..Len(existing) :
                            /\ existing[i].target = input.targetNode
                            /\ existing[i].sourceOutput = OrZero(input.sourceOutput)
                            /\ existing[i].targetInput = OrZero(input.targetInput)
             edge == EdgeOf(input)
         IN  IF duplicate
             THEN [threw |-> TRUE,
                   message |-> <<"Connection from \"", input.sourceNode, "\" to \"",
                                 input.targetNode, "\" already exists">>,
                   st |-> st]
             ELSE [threw |-> FALSE, message |-> <<>>,
                   st |-> State(st.nodes,
                                SetConns(st.connections, input.sourceNode,
                                         Append(existing, edge)),
                                st.nodeCounter)]

\* { ...old, ...new }
MergeParams(old, new) ==
    [k \in (DOMAIN old) \cup (DOMAIN new) |-> IF k \in DOMAIN new THEN new[k] ELSE old[k]]

\* updateNodeParameters replacing the parameters instead of merging into them
updateNodeParameters_Replaces(st, name, parameters) ==
    IF ~HasNode(st.nodes, name)
    THEN [threw |-> TRUE, message |-> <<"Node \"", name, "\" not found">>, st |-> st]
    ELSE [threw |-> FALSE, message |-> <<>>,
          st |-> State([i \in 1..Len(st.nodes) |->
                          IF st.nodes[i].name = name
                          THEN [st.nodes[i] EXCEPT !.parameters = parameters]
                          ELSE st.nodes[i]],
                       st.connections, st.nodeCounter)]

updateNodeParameters(st, name, parameters) ==
    IF ~HasNode(st.nodes, name)
    THEN [threw |-> TRUE, message |-> <<"Node \"", name, "\" not found">>, st |-> st]
    ELSE [threw |-> FALSE, message |-> <<>>,
          st |-> State([i \in 1..Len(st.nodes) |->
                          IF st.nodes[i].name = name
                          THEN [st.nodes[i] EXCEPT
                                  !.parameters = MergeParams(@, parameters)]
                          ELSE st.nodes[i]],
                       st.connections, st.nodeCounter)]

\* the main array built for one source from its edge list
MainConnections(conns) ==
    IF conns = <<>> THEN <<>>
    ELSE LET maxOutput == MaxOf({conns[i].sourceOutput : i \in 1..Len(conns)})
             inSlot(i) == LET pick(c) == c.sourceOutput = i IN SelectSeq(conns, pick)
         IN  [slot \in 1..(maxOutput + 1) |->
                LET group == inSlot(slot - 1)
                IN  [j \in 1..Len(group) |->
                       [node |-> group[j].target,
                        type |-> group[j].connectionType,
                        index |-> group[j].targetInput]]]

toN8nWorkflow(st, name) ==
    [name |-> name,
     nodes |-> st.nodes,
     connections |-> [i \in 1..Len(st.connections) |->
                        [source |-> st.connections[i].source,
                         main |-> MainConnections(st.connections[i].conns)]],
     settings |-> [executionOrder |-> "v1"]]

\* reset that clears the two maps and leaves the counter
reset_KeepsCounter(st) == State(<<>>, <<>>, st.nodeCounter)

reset(st) == State(<<>>, <<>>, 0)

-----------------------------------------------------------------------------
(* validateWorkflow: the schema (structural) phase, then the semantic      *)
(* phase. An error or warning text is the sequence of its fragments; a     *)
(* schema error is `${issue.path.join('.')}: ${issue.message}`.            *)

RecognizedPrefixes == {"n8n-nodes-base.", "@n8n/n8n-nodes-langchain."}
ConnectionTypes == {"main", "ai_tool", "ai_languageModel", "ai_memory"}

\* toLowerCase() of a fragment of a node type or of an error text; a fragment
\* that holds no word the program looks for is left as it is
LowerFragment(f) ==
    CASE f = "manualTrigger" -> "manualtrigger"
      [] f = "Webhook" -> "webhook"
      [] f = "Cron" -> "cron"
      [] f = "cronPlus" -> "cronplus"
      [] f = "Credential Sync" -> "credential sync"
      [] f = "Connection source \"" -> "connection source \""
      [] f = "Connection target \"" -> "connection target \""
      [] f = "Node ID is required" -> "node id is required"
      [] f = "Node name is required" -> "node name is required"
      [] f = "Workflow name is required" -> "workflow name is required"
      [] f = "Target node name is required" -> "target node name is required"
      [] f = "Invalid enum value" -> "invalid enum value"
      [] f = "Invalid literal value" -> "invalid literal value"
      [] f = "OAuth2 token expired" -> "oauth2 token expired"
      [] f = "Invalid API Key" -> "invalid api key"
      [] f = "AUTHENTICATION failed" -> "authentication failed"
      [] f = "Missing parameter" -> "missing parameter"
      [] f = "Unknown node" -> "unknown node"
      [] f = "Resource not found" -> "resource not found"
      [] f = "API-key" -> "api-key"
      [] OTHER -> f

\* the lowercased type fragments that include 'trigger' or 'webhook'
TriggerLike == {"manualtrigger", "webhook"}

\* F applied to the value of x, which is computed once
ByValue(F(_), x) == CHOOSE r \in {F(v) : v \in {x}} : TRUE

\* concatenation of f(1), ..., f(n)
FlatMap(f(_), n) ==
    LET RECURSIVE go(_)
        go(i) == IF i > n THEN <<>> ELSE f(i) \o go(i + 1)
    IN  go(1)

\* issue.path.join('.')
JoinPath(path) ==
    LET part(i) == IF i = 1 THEN <<path[i]>> ELSE <<".", path[i]>>
    IN  FlatMap(part, Len(path))

\* `${issue.path.join('.')}: ${issue.message}`
Issue(path, message) == JoinPath(path) \o <<": ", message>>

\* the typeVersion of a node is the number node.typeVersion, or that number
\* plus one half when the node carries the field typeVersionHalf
IsInteger(node) == "typeVersionHalf" \notin DOMAIN node
IsPositive(node) ==
    IF IsInteger(node) THEN node.typeVersion > 0 ELSE node.typeVersion >= 0

\* the issues of n8nNodeSchema for the node at array index idx (0-based)
NodeIssues(node, idx) ==
    LET at(field) == <<"nodes", ToString(idx), field>>
    IN  (IF node.id = <<>> THEN <<Issue(at("id"), "Node ID is required")>> ELSE <<>>)
        \o (IF node.name = "" THEN <<Issue(at("name"), "Node name is required")>> ELSE <<>>)
        \o (IF node.type = <<>>
            THEN <<Issue(at("type"), "String must contain at least 1 character(s)")>>
            ELSE <<>>)
        \o (IF node.type = <<>> \/ node.type[1] \notin RecognizedPrefixes
            THEN <<Issue(at("type"),
                         "Node type must start with 'n8n-nodes-base.' or '@n8n/n8n-nodes-langchain.'")>>
            ELSE <<>>)
        \o (IF ~IsInteger(node)
            THEN <<Issue(at("typeVersion"), "Expected integer, received float")>>
            ELSE <<>>)
        \o (IF ~IsPositive(node)
            THEN <<Issue(at("typeVersion"), "typeVersion must be a positive integer")>>
            ELSE <<>>)

\* the issues of n8nConnectionTargetSchema for one target
TargetIssues(conn, source, slot, j) ==
    LET at(field) == <<"connections", source, "main", ToString(slot), ToString(j), field>>
    IN  (IF conn.node = "" THEN <<Issue(at("node"), "Target node name is required")>> ELSE <<>>)
        \o (IF conn.type \notin ConnectionTypes
            THEN <<Issue(at("type"), "Invalid enum value")>>
            ELSE <<>>)
        \o (IF conn.index < 0
            THEN <<Issue(at("index"), "Number must be greater than or equal to 0")>>
            ELSE <<>>)

\* the issues of n8nConnectionsSchema
ConnectionsIssues(conns) ==
    LET ofEntry(i) ==
            LET main == conns[i].main
                ofSlot(s) ==
                    LET ofTarget(j) == TargetIssues(main[s][j], conns[i].source, s - 1, j - 1)
                    IN  FlatMap(ofTarget, Len(main[s]))
            IN  FlatMap(ofSlot, Len(main))
    IN  FlatMap(ofEntry, Len(conns))

\* schemaResult.error.issues, in the order of the schema's keys
SchemaIssues(workflow) ==
    LET ofNode(i) == NodeIssues(workflow.nodes[i], i - 1)
    IN  (IF workflow.name = ""
         THEN <<Issue(<<"name">>, "Workflow name is required")>> ELSE <<>>)
        \o (IF workflow.nodes = <<>>
            THEN <<Issue(<<"nodes">>, "Workflow must have at least one node")>>
            ELSE FlatMap(ofNode, Len(workflow.nodes)))
        \o ConnectionsIssues(workflow.connections)
        \o (IF workflow.settings.executionOrder # "v1"
            THEN <<Issue(<<"settings", "executionOrder">>, "Invalid literal value")>>
            ELSE <<>>)

isTriggerNode(type) ==
    \/ \E i \in 1..Len(type) : LowerFragment(type[i]) \in TriggerLike
    \/ /\ Len(type) >= 2
       /\ type[Len(type) - 1] \in RecognizedPrefixes
       /\ LowerFragment(type[Len(type)]) = "cron"

\* a semantic phase that looks at the connection keys only, not at the targets
SemanticErrors_KeysOnly(workflow) ==
    LET ns == workflow.nodes
        nodeNames == {ns[i].name : i \in 1..Len(ns)}
        nodeIds == {ns[i].id : i \in 1..Len(ns)}
        dupName(i) ==
            IF \E j \in 1..(i - 1) : ns[j].name = ns[i].name
            THEN <<(<<"Duplicate node name: \"", ns[i].name, "\"">>)>> ELSE <<>>
        ofEntry(i) ==
            IF workflow.connections[i].source \notin nodeNames
            THEN <<(<<"Connection source \"", workflow.connections[i].source,
                      "\" does not exist as a node">>)>>
            ELSE <<>>
    IN  (IF Cardinality(nodeNames) # Len(ns) THEN FlatMap(dupName, Len(ns)) ELSE <<>>)
        \o (IF Cardinality(nodeIds) # Len(ns)
            THEN <<(<<"Duplicate node IDs detected">>)>> ELSE <<>>)
        \o FlatMap(ofEntry, Len(workflow.connections))

\* a semantic phase that does not compare the node ids
SemanticErrors_NoIdCheck(workflow) ==
    LET ns == workflow.nodes
        nodeNames == {ns[i].name : i \in 1..Len(ns)}
        dupName(i) ==
            IF \E j \in 1..(i - 1) : ns[j].name = ns[i].name
            THEN <<(<<"Duplicate node name: \"", ns[i].name, "\"">>)>> ELSE <<>>
        ofEntry(i) ==
            LET source == workflow.connections[i].source
                main == workflow.connections[i].main
                ofSlot(s) ==
                    LET ofTarget(j) ==
                            IF main[s][j].node \notin nodeNames
                            THEN <<(<<"Connection target \"", main[s][j].node,
                                      "\" (from \"", source,
                                      "\") does not exist as a node">>)>>
                            ELSE <<>>
                    IN  FlatMap(ofTarget, Len(main[s]))
            IN  (IF source \notin nodeNames
                 THEN <<(<<"Connection source \"", source,
                           "\" does not exist as a node">>)>>
                 ELSE <<>>)
                \o FlatMap(ofSlot, Len(main))
    IN  (IF Cardinality(nodeNames) # Len(ns) THEN FlatMap(dupName, Len(ns)) ELSE <<>>)
        \o FlatMap(ofEntry, Len(workflow.connections))

\* the errors of the semantic phase
SemanticErrors(workflow) ==
    LET ns == workflow.nodes
        nodeNames == {ns[i].name : i \in 1..Len(ns)}
        nodeIds == {ns[i].id : i \in 1..Len(ns)}
        dupName(i) ==
            IF \E j \in 1..(i - 1) : ns[j].name = ns[i].name
            THEN <<(<<"Duplicate node name: \"", ns[i].name, "\"">>)>> ELSE <<>>
        ofEntry(i) ==
            LET source == workflow.connections[i].source
                main == workflow.connections[i].main
                ofSlot(s) ==
                    LET ofTarget(j) ==
                            IF main[s][j].node \notin nodeNames
                            THEN <<(<<"Connection target \"", main[s][j].node,
                                      "\" (from \"", source,
                                      "\") does not exist as a node">>)>>
                            ELSE <<>>
                    IN  FlatMap(ofTarget, Len(main[s]))
            IN  (IF source \notin nodeNames
                 THEN <<(<<"Connection source \"", source,
                           "\" does not exist as a node">>)>>
                 ELSE <<>>)
                \o FlatMap(ofSlot, Len(main))
    IN  (IF Cardinality(nodeNames) # Len(ns) THEN FlatMap(dupName, Len(ns)) ELSE <<>>)
        \o (IF Cardinality(nodeIds) # Len(ns)
            THEN <<(<<"Duplicate node IDs detected">>)>> ELSE <<>>)
        \o FlatMap(ofEntry, Len(workflow.connections))

\* a semantic phase that warns about the only node of a workflow too
SemanticWarnings_SingleNodeToo(workflow) ==
    LET ns == workflow.nodes
        cs == workflow.connections
        hasTrigger == \E i \in 1..Len(ns) : isTriggerNode(ns[i].type)
        connectedNodes ==
            UNION {UNION {{cs[i].main[s][j].node : j \in 1..Len(cs[i].main[s])} :
                            s \in 1..Len(cs[i].main)} :
                     i \in 1..Len(cs)}
        orphan(i) ==
            IF /\ ~isTriggerNode(ns[i].type)
               /\ ns[i].name \notin connectedNodes
            THEN <<(<<"Node \"", ns[i].name, "\" has no incoming connections">>)>>
            ELSE <<>>
    IN  (IF ~hasTrigger
         THEN <<(<<"Workflow has no trigger node. It can only be executed manually via API.">>)>>
         ELSE <<>>)
        \o FlatMap(orphan, Len(ns))

\* the warnings of the semantic phase
SemanticWarnings(workflow) ==
    LET ns == workflow.nodes
        cs == workflow.connections
        hasTrigger == \E i \in 1..Len(ns) : isTriggerNode(ns[i].type)
        connectedNodes ==
            UNION {UNION {{cs[i].main[s][j].node : j \in 1..Len(cs[i].main[s])} :
                            s \in 1..Len(cs[i].main)} :
                     i \in 1..Len(cs)}
        orphan(i) ==
            IF /\ ~isTriggerNode(ns[i].type)
               /\ ns[i].name \notin connectedNodes
               /\ Len(ns) > 1
            THEN <<(<<"Node \"", ns[i].name, "\" has no incoming connections">>)>>
            ELSE <<>>
    IN  (IF ~hasTrigger
         THEN <<(<<"Workflow has no trigger node. It can only be executed manually via API.">>)>>
         ELSE <<>>)
        \o FlatMap(orphan, Len(ns))

\* a validator that lets a warning make the workflow invalid
validateWorkflow_WarningsInvalidate(workflow) ==
    LET issues == SchemaIssues(workflow)
    IN  IF issues # <<>>
        THEN [valid |-> FALSE, errors |-> issues, warnings |-> <<>>]
        ELSE LET errors == SemanticErrors(workflow)
                 warnings == SemanticWarnings(workflow)
             IN  [valid |-> errors = <<>> /\ warnings = <<>>,
                  errors |-> errors,
                  warnings |-> warnings]

\* a validator that runs the semantic phase after a schema violation too
validateWorkflow_NoShortCircuit(workflow) ==
    LET errors == SchemaIssues(workflow) \o SemanticErrors(workflow)
    IN  [valid |-> errors = <<>>,
         errors |-> errors,
         warnings |-> SemanticWarnings(workflow)]

validateWorkflow(workflow) ==
    LET issues == SchemaIssues(workflow)
    IN  IF issues # <<>>
        THEN [valid |-> FALSE, errors |-> issues, warnings |-> <<>>]
        ELSE LET errors == SemanticErrors(workflow)
             IN  [valid |-> errors = <<>>,
                  errors |-> errors,
                  warnings |-> SemanticWarnings(workflow)]

-----------------------------------------------------------------------------
(* The tool surface: toolSchemas, toolImplementations, executeToolAsync.   *)
(* The arguments of a tool invocation are a record of optional values. A   *)
(* tool maps the graph state st to a ToolResult [success, message, data]   *)
(* and the state afterwards.                                               *)

ToolNames == {"add_node", "connect_nodes", "get_current_workflow",
              "update_node_parameters", "validate_workflow_with_n8n",
              "create_workflow_in_n8n"}

\* names that toolSchemas[toolName] finds on Object.prototype: the lookup is
\* truthy but the value has no safeParse
PrototypeNames == {"constructor", "toString"}

\* the keys a schema requires (keys with .optional() or .default() are not)
RequiredKeys(toolName) ==
    CASE toolName = "add_node" -> {"type", "typeVersion", "name"}
      [] toolName = "connect_nodes" -> {"sourceNode", "targetNode"}
      [] toolName = "get_current_workflow" -> {"name"}
      [] toolName = "update_node_parameters" -> {"nodeName", "parameters"}
      [] toolName = "validate_workflow_with_n8n" -> {"workflowName"}
      [] toolName = "create_workflow_in_n8n" -> {"workflowName"}

\* z.number().default(0): an omitted value becomes 0
WithDefaultZero(opt) == IF opt = <<>> THEN <<0>> ELSE opt

\* schema.safeParse(args)
safeParse(toolName, args) ==
    IF \E k \in RequiredKeys(toolName) : k \notin DOMAIN args \/ args[k] = <<>>
    THEN [success |-> FALSE, data |-> args]
    ELSE [success |-> TRUE,
          data |-> IF toolName = "connect_nodes"
                   THEN [args EXCEPT !.sourceOutput = WithDefaultZero(@),
                                     !.targetInput = WithDefaultZero(@)]
                   ELSE args]

ToolResult(success, message, data) ==
    [success |-> success, message |-> message, data |-> data]

\* the text of a node id
IdText(id) == <<id[1], ToString(id[2])>>

add_node(st, args) ==
    LET r == addNode(st, [type |-> args.type[1], typeVersion |-> args.typeVersion[1],
                          name |-> args.name[1], parameters |-> args.parameters,
                          credentials |-> <<>>])
    IN  IF r.threw
        THEN [st |-> r.st,
              result |-> ToolResult(FALSE, <<"Error adding node: ">> \o r.message, <<>>)]
        ELSE [st |-> r.st,
              result |-> ToolResult(TRUE,
                                    <<"Added node \"", args.name[1], "\" (">>
                                        \o args.type[1] \o <<") with ID: ">>
                                        \o IdText(r.node[1].id),
                                    r.node)]

connect_nodes(st, args) ==
    LET r == connectNodes(st, [sourceNode |-> args.sourceNode[1],
                               targetNode |-> args.targetNode[1],
                               sourceOutput |-> args.sourceOutput,
                               targetInput |-> args.targetInput,
                               connectionType |-> <<>>])
    IN  IF r.threw
        THEN [st |-> r.st,
              result |-> ToolResult(FALSE, <<"Error connecting nodes: ">> \o r.message,
                                    <<>>)]
        ELSE [st |-> r.st,
              result |-> ToolResult(TRUE,
                                    <<"Connected \"", args.sourceNode[1], "\" -> \"",
                                      args.targetNode[1], "\"">>,
                                    <<>>)]

get_current_workflow(st, args) ==
    [st |-> st,
     result |-> ToolResult(TRUE, <<"Current workflow state:">>,
                           <<toN8nWorkflow(st, args.name[1])>>)]

update_node_parameters(st, args) ==
    LET r == updateNodeParameters(st, args.nodeName[1], args.parameters[1])
    IN  IF r.threw
        THEN [st |-> r.st,
              result |-> ToolResult(FALSE, <<"Error updating parameters: ">> \o r.message,
                                    <<>>)]
        ELSE [st |-> r.st,
              result |-> ToolResult(TRUE,
                                    <<"Updated parameters for node \"",
                                      args.nodeName[1], "\"">>,
                                    <<>>)]

\* what the external service client answers to validateByCreation and to
\* createWorkflow: the call succeeds, reports a failure, or throws
RemoteAnswers == {"ok", "failed", "threw"}

validate_workflow_with_n8n(st, client, args, remote) ==
    [st |-> st,
     called |-> client,
     result |->
        IF ~client
        THEN ToolResult(FALSE,
                        <<"n8n API is not configured. Set N8N_API_KEY environment variable to enable n8n validation.">>,
                        <<>>)
        ELSE CASE remote = "ok" ->
                    ToolResult(TRUE, <<"Workflow validated successfully against n8n API.">>,
                               <<[validatedAt |-> "now"]>>)
               [] remote = "failed" ->
                    ToolResult(FALSE, <<"n8n validation failed: ", "remote error">>,
                               <<[errorType |-> "remote", recoverable |-> "remote",
                                  details |-> "remote"]>>)
               [] remote = "threw" ->
                    ToolResult(FALSE, <<"Error validating workflow: ", "remote error">>,
                               <<>>)]

\* create_workflow_in_n8n calling the external service without a client
create_workflow_in_n8n_NoClientCheck(st, client, args, remote) ==
    [st |-> st,
     called |-> TRUE,
     result |->
        IF remote = "ok"
        THEN ToolResult(TRUE, <<"Workflow created successfully in n8n.">>,
                        <<[id |-> "remote", name |-> args.workflowName[1],
                           url |-> "remote", active |-> "remote"]>>)
        ELSE ToolResult(FALSE, <<"Error creating workflow in n8n: ", "remote error">>,
                        <<>>)]

create_workflow_in_n8n(st, client, args, remote) ==
    [st |-> st,
     called |-> client,
     result |->
        IF ~client
        THEN ToolResult(FALSE,
                        <<"n8n API is not configured. Set N8N_API_KEY environment variable to enable n8n integration.">>,
                        <<>>)
        ELSE IF remote = "ok"
             THEN ToolResult(TRUE, <<"Workflow created successfully in n8n.">>,
                             <<[id |-> "remote", name |-> args.workflowName[1],
                                url |-> "remote", active |-> "remote"]>>)
             ELSE ToolResult(FALSE, <<"Error creating workflow in n8n: ", "remote error">>,
                             <<>>)]

\* executeTool, the synchronous variant: threw is TRUE when the call throws
\* (result.message is then the Error's message)
executeTool(st, toolName, args) ==
    IF toolName \in PrototypeNames
    THEN [threw |-> TRUE, st |-> st, called |-> FALSE,
          result |-> ToolResult(FALSE, <<"schema.safeParse is not a function">>, <<>>)]
    ELSE IF toolName \notin ToolNames
    THEN [threw |-> FALSE, st |-> st, called |-> FALSE,
          result |-> ToolResult(FALSE, <<"Unknown tool: ", toolName>>, <<>>)]
    ELSE IF toolName \in {"validate_workflow_with_n8n", "create_workflow_in_n8n"}
    THEN [threw |-> FALSE, st |-> st, called |-> FALSE,
          result |-> ToolResult(FALSE,
                                <<"Tool ", toolName,
                                  " is async. Use executeToolAsync instead.">>,
                                <<>>)]
    ELSE LET parsed == safeParse(toolName, args)
         IN  IF ~parsed.success
             THEN [threw |-> FALSE, st |-> st, called |-> FALSE,
                   result |-> ToolResult(FALSE, <<"Invalid arguments: ", "zod issues">>,
                                         <<>>)]
             ELSE LET r == CASE toolName = "add_node" -> add_node(st, parsed.data)
                             [] toolName = "connect_nodes" -> connect_nodes(st, parsed.data)
                             [] toolName = "get_current_workflow" ->
                                    get_current_workflow(st, parsed.data)
                             [] toolName = "update_node_parameters" ->
                                    update_node_parameters(st, parsed.data)
                  IN  [threw |-> FALSE, st |-> r.st, called |-> FALSE,
                       result |-> r.result]


\* executeToolAsync: threw is TRUE when the returned promise rejects
executeToolAsync(st, client, toolName, args, remote) ==
    IF toolName \in PrototypeNames
    THEN [threw |-> TRUE, st |-> st, called |-> FALSE,
          result |-> ToolResult(FALSE, <<"schema.safeParse is not a function">>, <<>>)]
    ELSE IF toolName \notin ToolNames
    THEN [threw |-> FALSE, st |-> st, called |-> FALSE,
          result |-> ToolResult(FALSE, <<"Unknown tool: ", toolName>>, <<>>)]
    ELSE LET parsed == safeParse(toolName, args)
         IN  IF ~parsed.success
             THEN [threw |-> FALSE, st |-> st, called |-> FALSE,
                   result |-> ToolResult(FALSE, <<"Invalid arguments: ", "zod issues">>,
                                         <<>>)]
             ELSE IF toolName = "validate_workflow_with_n8n"
             THEN LET r == validate_workflow_with_n8n(st, client, parsed.data, remote)
                  IN  [threw |-> FALSE, st |-> r.st, called |-> r.called,
                       result |-> r.result]
             ELSE IF toolName = "create_workflow_in_n8n"
             THEN LET r == create_workflow_in_n8n(st, client, parsed.data, remote)
                  IN  [threw |-> FALSE, st |-> r.st, called |-> r.called,
                       result |-> r.result]
             ELSE LET r == CASE toolName = "add_node" -> add_node(st, parsed.data)
                             [] toolName = "connect_nodes" -> connect_nodes(st, parsed.data)
                             [] toolName = "get_current_workflow" ->
                                    get_current_workflow(st, parsed.data)
                             [] toolName = "update_node_parameters" ->
                                    update_node_parameters(st, parsed.data)
                  IN  [threw |-> FALSE, st |-> r.st, called |-> FALSE,
                       result |-> r.result]

-----------------------------------------------------------------------------
(* The generation loop: buildWorkflow and its helpers.                     *)

\* the oracle is asked at most this many times in one build
MAX_TURNS == 20

\* env.MAX_VALIDATION_RETRIES when the variable is not set
DEFAULT_MAX_VALIDATION_RETRIES == 3

\* the keywords of analyzeValidationError that a fragment of an error text
\* contains once lowercased
KeywordsOf(fragment) ==
    CASE fragment = "credential sync" -> {"credential"}
      [] fragment = "oauth2 token expired" -> {"oauth"}
      [] fragment = "invalid api key" -> {"invalid", "api key"}
      [] fragment = "authentication failed" -> {"authentication"}
      [] fragment = "connections" -> {"connection"}
      [] fragment = "connection source \"" -> {"connection"}
      [] fragment = "connection target \"" -> {"connection"}
      [] fragment = "node id is required" -> {"required"}
      [] fragment = "node name is required" -> {"required"}
      [] fragment = "workflow name is required" -> {"required"}
      [] fragment = "target node name is required" -> {"required"}
      [] fragment = "missing parameter" -> {"missing", "parameter"}
      [] fragment = "invalid enum value" -> {"invalid"}
      [] fragment = "invalid literal value" -> {"invalid"}
      [] fragment = "unknown node" -> {"unknown node"}
      [] fragment = "resource not found" -> {"not found"}
      [] OTHER -> {}

\* errorMessage.toLowerCase().includes(keyword)
Includes(text, keyword) ==
    \E i \in 1..Len(text) : keyword \in KeywordsOf(LowerFragment(text[i]))

\* validation.errors.join('\n')
JoinLines(errors) ==
    LET line(i) == IF i = 1 THEN errors[i] ELSE <<"\n">> \o errors[i]
    IN  FlatMap(line, Len(errors))

\* a classifier that looks for the recoverable keywords first
analyzeValidationError_RecoverableFirst(errorMessage) ==
    IF \E k \in {"required", "missing", "parameter"} : Includes(errorMessage, k)
    THEN [recoverable |-> TRUE,
          suggestedAction |-> "Add the missing required parameter using update_node_parameters."]
    ELSE IF \E k \in {"invalid", "unknown node"} : Includes(errorMessage, k)
    THEN [recoverable |-> TRUE,
          suggestedAction |-> "Check the node type or parameter value. Use list_available_nodes to see valid options."]
    ELSE IF \E k \in {"connection", "not found"} : Includes(errorMessage, k)
    THEN [recoverable |-> TRUE,
          suggestedAction |-> "Check node names and ensure they exist before connecting."]
    ELSE IF \E k \in {"credential", "oauth", "api key", "authentication"} :
            Includes(errorMessage, k)
    THEN [recoverable |-> FALSE,
          suggestedAction |-> "Credentials need to be configured in n8n. Please set up the required credentials in your n8n instance."]
    ELSE [recoverable |-> TRUE,
          suggestedAction |-> "Review the error message and fix the issue."]

analyzeValidationError(errorMessage) ==
    LET classify(text) ==
            IF \E k \in {"credential", "oauth", "api key", "authentication"} :
                    Includes(text, k)
            THEN [recoverable |-> FALSE,
                  suggestedAction |-> "Credentials need to be configured in n8n. Please set up the required credentials in your n8n instance."]
            ELSE IF \E k \in {"required", "missing", "parameter"} : Includes(text, k)
            THEN [recoverable |-> TRUE,
                  suggestedAction |-> "Add the missing required parameter using update_node_parameters."]
            ELSE IF \E k \in {"invalid", "unknown node"} : Includes(text, k)
            THEN [recoverable |-> TRUE,
                  suggestedAction |-> "Check the node type or parameter value. Use list_available_nodes to see valid options."]
            ELSE IF \E k \in {"connection", "not found"} : Includes(text, k)
            THEN [recoverable |-> TRUE,
                  suggestedAction |-> "Check node names and ensure they exist before connecting."]
            ELSE [recoverable |-> TRUE,
                  suggestedAction |-> "Review the error message and fix the issue."]
    IN  ByValue(classify, errorMessage)

\* the content of the user message that asks for a correction
buildRetryPrompt(errorMessage, analysis) ==
    <<[type |-> "retry", error |-> errorMessage,
       suggestedAction |-> analysis.suggestedAction]>>

\* a BuildResult; an optional field that is not set is <<>>
BuildResult(success, workflow, error, warnings, attempts, requiresHumanInput, reason) ==
    [success |-> success, workflow |-> workflow, error |-> error,
     validationWarnings |-> warnings, validationAttempts |-> attempts,
     requiresHumanInput |-> requiresHumanInput, humanInputReason |-> reason]

\* the value of `result` while no build has returned
NoResult == BuildResult(FALSE, <<>>, <<>>, <<>>, 0, <<>>, <<>>)

\* a loop that lets the counter reach the bound before it stops
LoopContinues_OffByOne(count) == count <= MAX_TURNS

\* while (turnCount < MAX_TURNS)
LoopContinues(count) == count < MAX_TURNS

\* a finalize step that validates whatever graph exists, the empty one included
Finalize_ValidatesEmpty(st, attempts, retries) ==
    LET workflow == toN8nWorkflow(st, "Generated Workflow")
        outcome(validation) ==
           LET errorMsg == JoinLines(validation.errors)
               analysis == analyzeValidationError(errorMsg)
           IN  IF ~validation.valid
               THEN IF analysis.recoverable /\ attempts + 1 < retries
                    THEN [retry |-> TRUE, validated |-> TRUE,
                          validationAttempts |-> attempts + 1,
                          prompt |-> buildRetryPrompt(errorMsg, analysis),
                          result |-> NoResult]
                    ELSE [retry |-> FALSE, validated |-> TRUE,
                          validationAttempts |-> attempts + 1,
                          prompt |-> <<>>,
                          result |-> BuildResult(FALSE, <<>>,
                                                 <<"Generated workflow is invalid:\n">>
                                                     \o errorMsg,
                                                 <<>>, attempts + 1,
                                                 <<~analysis.recoverable>>,
                                                 <<analysis.suggestedAction>>)]
               ELSE [retry |-> FALSE, validated |-> TRUE,
                     validationAttempts |-> attempts,
                     prompt |-> <<>>,
                     result |-> BuildResult(TRUE, <<workflow>>, <<>>,
                                            <<validation.warnings>>, attempts,
                                            <<>>, <<>>)]
    IN  ByValue(outcome, validateWorkflow(workflow))

\* the branch taken when the response asks for no tool or stops with end_turn:
\* retry is TRUE when the loop continues with a correction prompt, otherwise
\* result is returned; validated tells whether validateWorkflow was called
Finalize(st, attempts, retries) ==
    IF Len(st.nodes) > 0
    THEN LET workflow == toN8nWorkflow(st, "Generated Workflow")
             outcome(validation) ==
                LET errorMsg == JoinLines(validation.errors)
                    analysis == analyzeValidationError(errorMsg)
                IN  IF ~validation.valid
                    THEN IF analysis.recoverable /\ attempts + 1 < retries
                         THEN [retry |-> TRUE, validated |-> TRUE,
                               validationAttempts |-> attempts + 1,
                               prompt |-> buildRetryPrompt(errorMsg, analysis),
                               result |-> NoResult]
                         ELSE [retry |-> FALSE, validated |-> TRUE,
                               validationAttempts |-> attempts + 1,
                               prompt |-> <<>>,
                               result |-> BuildResult(FALSE, <<>>,
                                                      <<"Generated workflow is invalid:\n">>
                                                          \o errorMsg,
                                                      <<>>, attempts + 1,
                                                      <<~analysis.recoverable>>,
                                                      <<analysis.suggestedAction>>)]
                    ELSE [retry |-> FALSE, validated |-> TRUE,
                          validationAttempts |-> attempts,
                          prompt |-> <<>>,
                          result |-> BuildResult(TRUE, <<workflow>>, <<>>,
                                                 <<validation.warnings>>, attempts,
                                                 <<>>, <<>>)]
         IN  ByValue(outcome, validateWorkflow(workflow))
    ELSE [retry |-> FALSE, validated |-> FALSE,
          validationAttempts |-> attempts,
          prompt |-> <<>>,
          result |-> BuildResult(FALSE, <<>>,
                                 <<"No workflow was created. Please try a more specific request.">>,
                                 <<>>, attempts, <<>>, <<>>)]

\* a turn-bound exit that reports an invalid graph the way the finalize branch
\* does, with the classification's flag and suggested action
MaxTurnsReached_ClassifiedFailure(st, attempts) ==
    IF Len(st.nodes) > 0
    THEN LET workflow == toN8nWorkflow(st, "Generated Workflow")
             outcome(validation) ==
                LET errorMsg == JoinLines(validation.errors)
                    analysis == analyzeValidationError(errorMsg)
                IN  IF ~validation.valid
                    THEN [validated |-> TRUE,
                          result |-> BuildResult(FALSE, <<>>,
                                                 <<"Generated workflow is invalid:\n">>
                                                     \o errorMsg,
                                                 <<>>, attempts,
                                                 <<~analysis.recoverable>>,
                                                 <<analysis.suggestedAction>>)]
                    ELSE [validated |-> TRUE,
                          result |-> BuildResult(TRUE, <<workflow>>, <<>>,
                                                 <<validation.warnings>>, attempts,
                                                 <<>>, <<>>)]
         IN  ByValue(outcome, validateWorkflow(workflow))
    ELSE [validated |-> FALSE,
          result |-> BuildResult(FALSE, <<>>,
                                 <<"Max turns reached without completing the workflow.">>,
                                 <<>>, attempts, <<TRUE>>,
                                 <<"Unable to complete the workflow within the turn limit. Please try a simpler request.">>)]

\* a turn-bound exit that returns whatever graph exists as a success
MaxTurnsReached_NoValidityCheck(st, attempts) ==
    IF Len(st.nodes) > 0
    THEN LET workflow == toN8nWorkflow(st, "Generated Workflow")
             outcome(validation) ==
                [validated |-> TRUE,
                 result |-> BuildResult(TRUE, <<workflow>>, <<>>,
                                        <<validation.warnings>>, attempts,
                                        <<>>, <<>>)]
         IN  ByValue(outcome, validateWorkflow(workflow))
    ELSE [validated |-> FALSE,
          result |-> BuildResult(FALSE, <<>>,
                                 <<"Max turns reached without completing the workflow.">>,
                                 <<>>, attempts, <<TRUE>>,
                                 <<"Unable to complete the workflow within the turn limit. Please try a simpler request.">>)]

\* the code after the loop, reached when the turn bound stopped it
MaxTurnsReached(st, attempts) ==
    IF Len(st.nodes) > 0
    THEN LET workflow == toN8nWorkflow(st, "Generated Workflow")
             outcome(validation) ==
                IF ~validation.valid
                THEN [validated |-> TRUE,
                      result |-> BuildResult(FALSE, <<>>,
                                             <<"Generated workflow is invalid:\n">>
                                                 \o JoinLines(validation.errors),
                                             <<>>, attempts, <<TRUE>>,
                                             <<"Maximum turns reached. Please simplify your request or provide more specific instructions.">>)]
                ELSE [validated |-> TRUE,
                      result |-> BuildResult(TRUE, <<workflow>>, <<>>,
                                             <<validation.warnings>>, attempts,
                                             <<>>, <<>>)]
         IN  ByValue(outcome, validateWorkflow(workflow))
    ELSE [validated |-> FALSE,
          result |-> BuildResult(FALSE, <<>>,
                                 <<"Max turns reached without completing the workflow.">>,
                                 <<>>, attempts, <<TRUE>>,
                                 <<"Unable to complete the workflow within the turn limit. Please try a simpler request.">>)]

\* the result of the catch block for an Error with this message
Caught(errorMessage, attempts) ==
    BuildResult(FALSE, <<>>, errorMessage, <<>>, attempts, <<>>, <<>>)

\* the content sent back for a tool result
ResultContent(toolResult) ==
    IF toolResult.data # <<>>
    THEN [json |-> toolResult.data[1]]
    ELSE [text |-> toolResult.message]

\* createN8nApiClient(baseUrl, apiKey) !== null
createN8nApiClient(apiKey) ==
    ~(apiKey = <<>> \/ apiKey[1].text = "your-n8n-api-key" \/ apiKey[1].length < 10)

-----------------------------------------------------------------------------
(* The State Manager driven directly, one action per method call.          *)

Cur == State(nodes, connections, nodeCounter)

EdgeCount(cs) ==
    LET RECURSIVE Sum(_)
        Sum(i) == IF i = 0 THEN 0 ELSE Len(cs[i].conns) + Sum(i - 1)
    IN  Sum(Len(cs))

\* what is observed of a call: the method, whether it threw and the head of the
\* Error's text, the boolean it returned, the node it returned
NoCall == [op |-> "none", threw |-> FALSE, error |-> "", ret |-> FALSE, node |-> <<>>]

ErrorHead(message) == IF message = <<>> THEN "" ELSE message[1]

Install(st) ==
    /\ nodes' = st.nodes
    /\ connections' = st.connections
    /\ nodeCounter' = st.nodeCounter

AddNode(input) ==
    /\ nodeCounter < MaxNodeCounter
    /\ LET r == addNode(Cur, input)
       IN  /\ Install(r.st)
           /\ call' = [op |-> "addNode", threw |-> r.threw,
                       error |-> ErrorHead(r.message), ret |-> FALSE, node |-> r.node]
           /\ issued' = IF r.threw THEN issued ELSE Append(issued, r.node[1].id)
    /\ UNCHANGED <<buildVars, pureVars>>

RemoveNode(name) ==
    LET r == removeNode(Cur, name)
    IN  /\ Install(r.st)
        /\ call' = [op |-> "removeNode", threw |-> FALSE, error |-> "",
                    ret |-> r.ret, node |-> <<>>]
        /\ UNCHANGED issued
        /\ UNCHANGED <<buildVars, pureVars>>

ConnectNodes(input) ==
    /\ EdgeCount(connections) < MaxEdges
    /\ LET r == connectNodes(Cur, input)
       IN  /\ Install(r.st)
           /\ call' = [op |-> "connectNodes", threw |-> r.threw,
                       error |-> ErrorHead(r.message), ret |-> FALSE, node |-> <<>>]
           /\ UNCHANGED issued
    /\ UNCHANGED <<buildVars, pureVars>>

Reset ==
    /\ Install(reset(Cur))
    /\ call' = [NoCall EXCEPT !.op = "reset"]
    /\ issued' = <<>>
    /\ UNCHANGED <<buildVars, pureVars>>

SMInit ==
    /\ nodes = <<>>
    /\ connections = <<>>
    /\ nodeCounter = 0
    /\ call = NoCall
    /\ issued = <<>>

-----------------------------------------------------------------------------
(* One build: buildWorkflow driven by an oracle. The oracle answers freely *)
(* from Responses during its first MaxScriptedTurns turns and by its habit *)
(* afterwards.                                                             *)

TextBlock(text) == [type |-> "text", text |-> text]
ToolUse(name, input) == [type |-> "tool_use", id |-> <<>>, name |-> name, input |-> input]
Response(content, stop_reason) == [content |-> content, stop_reason |-> stop_reason]

AddNodeArgs(name, type, typeVersion) ==
    [type |-> <<type>>, typeVersion |-> <<typeVersion>>, name |-> <<name>>,
     parameters |-> <<>>]
ConnectNodesArgs(source, target, sourceOutput, targetInput) ==
    [sourceNode |-> <<source>>, targetNode |-> <<target>>,
     sourceOutput |-> sourceOutput, targetInput |-> targetInput]

\* the oracle asks for the current workflow
Poll == Response(<<ToolUse("get_current_workflow", [name |-> <<"My Workflow">>])>>,
                 "tool_use")
\* the oracle answers with text only
Finish == Response(<<TextBlock("done")>>, "end_turn")

Responses ==
    {Poll, Finish,
     Response(<<ToolUse("add_node", AddNodeArgs("Webhook", GoodType, 1))>>, "tool_use"),
     Response(<<ToolUse("add_node", AddNodeArgs("Credential Sync", BadType, 1))>>,
              "tool_use"),
     Response(<<ToolUse("connect_nodes",
                        ConnectNodesArgs("Credential Sync", "Credential Sync",
                                         <<>>, <<-1>>))>>,
              "tool_use"),
     Response(<<TextBlock("adding"),
                ToolUse("add_node", AddNodeArgs("Slack", PlainType, 1)),
                ToolUse("connect_nodes", ConnectNodesArgs("Slack", "Slack", <<>>, <<>>))>>,
              "tool_use"),
     Response(<<TextBlock("adding"),
                ToolUse("add_node", AddNodeArgs("Slack", PlainType, 1))>>,
              "end_turn"),
     Response(<<ToolUse("remove_node", [name |-> <<"Webhook">>]),
                ToolUse("add_node", [type |-> <<>>, typeVersion |-> <<1>>,
                                     name |-> <<"Slack">>, parameters |-> <<>>])>>,
              "tool_use"),
     Response(<<ToolUse("update_node_parameters",
                        [nodeName |-> <<"Webhook">>,
                         parameters |-> <<[path |-> "hook"]>>]),
                ToolUse("validate_workflow_with_n8n",
                        [workflowName |-> <<"My Workflow">>]),
                ToolUse("create_workflow_in_n8n",
                        [workflowName |-> <<"My Workflow">>])>>,
              "tool_use"),
     Response(<<ToolUse("constructor", [name |-> <<"Webhook">>]),
                ToolUse("add_node", AddNodeArgs("Webhook", GoodType, 1))>>,
              "tool_use")}

\* what the oracle does once its scripted turns are over: it always asks for
\* the workflow, it always answers with text, or it asks for the workflow
\* until the last turn and answers that one with text
Habits == {"poll", "finish", "pollThenFinish"}

\* the continueFrom option of a build: omitted, or the log of an earlier build
\* whose first oracle call threw, which is empty
ContinueChoices == {<<>>, <<<<>>>>}

\* the values of env.MAX_VALIDATION_RETRIES the builds run with
RetryBudgets == {0, DEFAULT_MAX_VALIDATION_RETRIES}

\* the values of env.N8N_API_KEY the builds run with
ApiKeys == {<<>>, <<[text |-> "your-n8n-api-key", length |-> 16]>>}

OracleChoices ==
    IF turnCount < MaxScriptedTurns THEN Responses
    ELSE IF oracleHabit = "poll" THEN {Poll}
    ELSE IF oracleHabit = "finish" THEN {Finish}
    ELSE IF turnCount + 1 < MAX_TURNS THEN {Poll} ELSE {Finish}

\* the blocks of a response with the ids the oracle gives its tool invocations
Stamp(content, turn) ==
    [i \in 1..Len(content) |->
        IF content[i].type = "tool_use"
        THEN [content[i] EXCEPT !.id = <<"toolu_", turn, i>>]
        ELSE content[i]]

IsToolUse(block) == block.type = "tool_use"

Message(role, content) == [role |-> role, content |-> content]

\* the ids issued so far, with the id of a node that a tool just added
IssuedAfter(after) ==
    IF after.nodeCounter > nodeCounter
    THEN Append(issued, NodeId(after.nodeCounter))
    ELSE issued

\* the lines a response adds to the conversation log: one for each text block
\* and one for each tool invocation, in the order of the blocks
LogLine(kind, text, json) == [kind |-> kind, text |-> text, json |-> json]

ResponseLog(content) ==
    [i \in 1..Len(content) |->
        IF content[i].type = "text"
        THEN LogLine("Assistant: ", content[i].text, <<>>)
        ELSE LogLine("Tool: ", content[i].name, <<content[i].input>>)]

\* the interactive session before its first line: a question is pending, no
\* build has returned, none is running
SessionStart ==
    [questionPending |-> TRUE, lastBuildResult |-> <<>>, running |-> 0, prompts |-> 0,
     unread |-> FALSE]

\* a build that resets the graph whether it continues or not
StartBuild_AlwaysResets(continueFrom, retries, apiKey, habit) ==
    /\ pc = "idle"
    /\ n8nClient' = createN8nApiClient(apiKey)
    /\ conversationLog' = IF continueFrom # <<>> THEN continueFrom[1] ELSE <<>>
    /\ Install(reset(Cur)) /\ issued' = <<>>
    /\ messages' = <<Message("user", <<[type |-> "prompt"]>>)>>
    /\ validationAttempts' = 0
    /\ maxRetries' = retries
    /\ turnCount' = 0
    /\ oracleHabit' = habit
    /\ pc' = "turn"
    /\ UNCHANGED <<call, pending, toolResults, result, oracleCalls, validatorRuns, executed>>
    /\ UNCHANGED <<remoteCalls, given, returned>>

\* continueFrom is the log of an earlier build or is omitted; an array, empty
\* or not, is truthy
StartBuild(continueFrom, retries, apiKey, habit) ==
    /\ pc = "idle"
    /\ n8nClient' = createN8nApiClient(apiKey)
    /\ conversationLog' = IF continueFrom # <<>> THEN continueFrom[1] ELSE <<>>
    /\ IF continueFrom # <<>>
       THEN UNCHANGED <<nodes, connections, nodeCounter, issued>>
       ELSE Install(reset(Cur)) /\ issued' = <<>>
    /\ messages' = <<Message("user", <<[type |-> "prompt"]>>)>>
    /\ validationAttempts' = 0
    /\ maxRetries' = retries
    /\ turnCount' = 0
    /\ oracleHabit' = habit
    /\ pc' = "turn"
    /\ UNCHANGED <<call, pending, toolResults, result, oracleCalls, validatorRuns, executed>>
    /\ UNCHANGED <<remoteCalls, given, returned>>

\* a retry that sends the first prompt and the corrective prompt only
TurnFinalize_DropsHistory(response) ==
    /\ pc = "turn"
    /\ LoopContinues(turnCount)
    /\ LET content == Stamp(response.content, turnCount + 1)
           history == Append(messages, Message("assistant", content))
       IN  /\ SelectSeq(content, IsToolUse) = <<>> \/ response.stop_reason = "end_turn"
           /\ \E f \in {Finalize(Cur, validationAttempts, maxRetries)} :
                 /\ turnCount' = turnCount + 1
                 /\ oracleCalls' = oracleCalls + 1
                 /\ validationAttempts' = f.validationAttempts
                 /\ validatorRuns' = validatorRuns + (IF f.validated THEN 1 ELSE 0)
                 /\ IF f.retry
                    THEN /\ messages' = <<messages[1], Message("user", f.prompt)>>
                         /\ pc' = "turn"
                         /\ UNCHANGED result
                    ELSE /\ messages' = history
                         /\ pc' = "done"
                         /\ result' = f.result
           /\ conversationLog' = conversationLog \o ResponseLog(content)
    /\ UNCHANGED <<nodes, connections, nodeCounter, call, issued, maxRetries, n8nClient,
                   oracleHabit, pending, toolResults, executed>>
    /\ UNCHANGED <<remoteCalls, given, returned, session>>

\* a turn whose response asks for no tool or stops with end_turn
TurnFinalize(response) ==
    /\ pc = "turn"
    /\ LoopContinues(turnCount)
    /\ LET content == Stamp(response.content, turnCount + 1)
           history == Append(messages, Message("assistant", content))
       IN  /\ SelectSeq(content, IsToolUse) = <<>> \/ response.stop_reason = "end_turn"
           /\ \E f \in {Finalize(Cur, validationAttempts, maxRetries)} :
                 /\ turnCount' = turnCount + 1
                 /\ oracleCalls' = oracleCalls + 1
                 /\ validationAttempts' = f.validationAttempts
                 /\ validatorRuns' = validatorRuns + (IF f.validated THEN 1 ELSE 0)
                 /\ IF f.retry
                    THEN /\ messages' = Append(history, Message("user", f.prompt))
                         /\ pc' = "turn"
                         /\ UNCHANGED result
                    ELSE /\ messages' = history
                         /\ pc' = "done"
                         /\ result' = f.result
           /\ conversationLog' = conversationLog \o ResponseLog(content)
    /\ UNCHANGED <<nodes, connections, nodeCounter, call, issued, maxRetries, n8nClient,
                   oracleHabit, pending, toolResults, executed>>
    /\ UNCHANGED <<remoteCalls, given, returned, session>>

\* a turn whose response asks for tools
TurnToolUse(response) ==
    /\ pc = "turn"
    /\ LoopContinues(turnCount)
    /\ LET content == Stamp(response.content, turnCount + 1)
       IN  /\ SelectSeq(content, IsToolUse) # <<>>
           /\ response.stop_reason # "end_turn"
           /\ turnCount' = turnCount + 1
           /\ oracleCalls' = oracleCalls + 1
           /\ messages' = Append(messages, Message("assistant", content))
           /\ pending' = SelectSeq(content, IsToolUse)
           /\ toolResults' = <<>>
           /\ pc' = "tools"
           /\ conversationLog' = conversationLog \o ResponseLog(content)
    /\ UNCHANGED <<nodes, connections, nodeCounter, call, issued, maxRetries, n8nClient,
                   oracleHabit, validationAttempts, validatorRuns, result, executed>>
    /\ UNCHANGED <<remoteCalls, given, returned, session>>

\* the oracle call throws
OracleThrows ==
    /\ pc = "turn"
    /\ LoopContinues(turnCount)
    /\ turnCount' = turnCount + 1
    /\ oracleCalls' = oracleCalls + 1
    /\ result' = Caught(<<"oracle error">>, validationAttempts)
    /\ pc' = "done"
    /\ UNCHANGED <<nodes, connections, nodeCounter, call, issued, maxRetries, n8nClient,
                   oracleHabit, validationAttempts, validatorRuns, messages, pending,
                   toolResults, executed>>
    /\ UNCHANGED <<remoteCalls, given, returned, conversationLog, session>>

\* the next tool invocation of the response is executed; after the last one
\* the results are sent back as one user message
ExecTool(remote) ==
    /\ pc = "tools"
    /\ \E block \in {pending[Len(toolResults) + 1]} :
       \E r \in {executeToolAsync(Cur, n8nClient, block.name, block.input, remote)} :
       /\ remoteCalls' = remoteCalls + (IF r.called THEN 1 ELSE 0)
       /\ LET results == Append(toolResults,
                                [type |-> "tool_result", tool_use_id |-> block.id,
                                 content |-> ResultContent(r.result)])
          IN  IF r.threw
              THEN /\ result' = Caught(r.result.message, validationAttempts)
                   /\ pc' = "done"
                   /\ UNCHANGED <<nodes, connections, nodeCounter, issued, messages,
                                  pending, toolResults, executed, conversationLog>>
              ELSE /\ Install(r.st)
                   /\ conversationLog' =
                         Append(conversationLog, LogLine("Result: ", "", <<r.result>>))
                   /\ issued' = IssuedAfter(r.st)
                   /\ executed' = Append(executed, block.id)
                   /\ UNCHANGED result
                   /\ IF Len(results) = Len(pending)
                      THEN /\ messages' = Append(messages, Message("user", results))
                           /\ pending' = <<>>
                           /\ toolResults' = <<>>
                           /\ pc' = "turn"
                      ELSE /\ toolResults' = results
                           /\ UNCHANGED <<messages, pending, pc>>
    /\ UNCHANGED <<call, maxRetries, n8nClient, oracleHabit, turnCount, oracleCalls,
                   validationAttempts, validatorRuns, given, returned, session>>

\* the turn bound stops the loop
MaxTurns ==
    /\ pc = "turn"
    /\ ~LoopContinues(turnCount)
    /\ \E m \in {MaxTurnsReached(Cur, validationAttempts)} :
           /\ result' = m.result
           /\ validatorRuns' = validatorRuns + (IF m.validated THEN 1 ELSE 0)
    /\ pc' = "done"
    /\ UNCHANGED <<nodes, connections, nodeCounter, call, issued, maxRetries, n8nClient,
                   oracleHabit, turnCount, oracleCalls, validationAttempts, messages,
                   pending, toolResults, executed>>
    /\ UNCHANGED <<remoteCalls, given, returned, conversationLog, session>>

BuildInit ==
    /\ pc = "idle"
    /\ turnCount = 0
    /\ oracleCalls = 0
    /\ validationAttempts = 0
    /\ validatorRuns = 0
    /\ maxRetries = DEFAULT_MAX_VALIDATION_RETRIES
    /\ n8nClient = FALSE
    /\ oracleHabit = "finish"
    /\ messages = <<>>
    /\ pending = <<>>
    /\ toolResults = <<>>
    /\ executed = <<>>
    /\ remoteCalls = 0
    /\ result = NoResult
    /\ conversationLog = <<>>
    /\ session = SessionStart

\* no function is being examined on its own
PureInit ==
    /\ given = <<>>
    /\ returned = <<>>

Init == SMInit /\ BuildInit /\ PureInit

vars == <<nodes, connections, nodeCounter, call, issued, pc, turnCount, oracleCalls,
          validationAttempts, validatorRuns, maxRetries, n8nClient, oracleHabit,
          messages, pending, toolResults, executed, remoteCalls, result, given,
          returned, conversationLog, session>>

StateNext ==
    \/ \E input \in AddNodeInputs : AddNode(input)
    \/ \E name \in Names : RemoveNode(name)
    \/ \E input \in ConnectNodesInputs : ConnectNodes(input)
    \/ Reset

SpecState == Init /\ [][StateNext]_vars

Next ==
    \/ \E continueFrom \in ContinueChoices, retries \in RetryBudgets, apiKey \in ApiKeys,
          habit \in Habits :
            StartBuild(continueFrom, retries, apiKey, habit) /\ UNCHANGED session
    \/ \E response \in OracleChoices : TurnFinalize(response)
    \/ \E response \in OracleChoices : TurnToolUse(response)
    \/ OracleThrows
    \/ \E remote \in RemoteAnswers : ExecTool(remote)
    \/ MaxTurns

Spec == Init /\ [][Next]_vars

\* the awaited oracle and tool calls complete, so a started build keeps running
FairSpec == Spec /\ WF_vars(Next)

-----------------------------------------------------------------------------
(* The tool surface examined on its own: one tool is called by name, with  *)
(* or without the external service client, on a graph built before.        *)

EmptyGraph == State(<<>>, <<>>, 0)
WebhookGraph == add_node(EmptyGraph, AddNodeArgs("Webhook", GoodType, 1)).st
TwoNodeGraph == add_node(WebhookGraph, AddNodeArgs("Slack", PlainType, 1)).st
ConnectedGraph ==
    connect_nodes(TwoNodeGraph, ConnectNodesArgs("Webhook", "Slack", <<0>>, <<0>>)).st

ToolGraphs == {EmptyGraph, WebhookGraph, TwoNodeGraph, ConnectedGraph}

Invocation(toolName, args) == [toolName |-> toolName, args |-> args]

\* calls that respect the tool's contract
WellFormedInvocations ==
    {Invocation("add_node", AddNodeArgs("Webhook", GoodType, 1)),
     Invocation("add_node", AddNodeArgs("Credential Sync", BadType, 1)),
     Invocation("add_node", AddNodeArgs("Slack", PlainType, 0)),
     Invocation("connect_nodes", ConnectNodesArgs("Webhook", "Slack", <<>>, <<>>)),
     Invocation("connect_nodes", ConnectNodesArgs("Slack", "Webhook", <<0>>, <<0>>)),
     Invocation("get_current_workflow", [name |-> <<"My Workflow">>]),
     Invocation("update_node_parameters",
                [nodeName |-> <<"Slack">>, parameters |-> <<[path |-> "hook"]>>]),
     Invocation("validate_workflow_with_n8n", [workflowName |-> <<"My Workflow">>]),
     Invocation("create_workflow_in_n8n", [workflowName |-> <<"My Workflow">>])}

\* calls with a required argument missing
IllFormedInvocations ==
    {Invocation("add_node", [type |-> <<>>, typeVersion |-> <<1>>,
                             name |-> <<"Slack">>, parameters |-> <<>>]),
     Invocation("connect_nodes", [sourceNode |-> <<"Webhook">>]),
     Invocation("update_node_parameters", [nodeName |-> <<"Webhook">>]),
     Invocation("create_workflow_in_n8n", [name |-> <<"My Workflow">>])}

\* calls of a name that is no tool
UnknownInvocations ==
    {Invocation("remove_node", [name |-> <<"Webhook">>]),
     Invocation("constructor", [name |-> <<"Webhook">>]),
     Invocation("toString", [name |-> <<"Webhook">>])}

Invocations == WellFormedInvocations \cup IllFormedInvocations \cup UnknownInvocations

ToolsInit ==
    /\ \E g \in ToolGraphs, invocation \in Invocations :
          /\ nodes = g.nodes
          /\ connections = g.connections
          /\ nodeCounter = g.nodeCounter
          /\ issued = [i \in 1..g.nodeCounter |-> NodeId(i)]
          /\ given = [toolName |-> invocation.toolName, args |-> invocation.args,
                      before |-> g]
    /\ call = NoCall
    /\ n8nClient \in BOOLEAN
    /\ pc = "idle"
    /\ turnCount = 0
    /\ oracleCalls = 0
    /\ validationAttempts = 0
    /\ validatorRuns = 0
    /\ maxRetries = DEFAULT_MAX_VALIDATION_RETRIES
    /\ oracleHabit = "finish"
    /\ messages = <<>>
    /\ pending = <<>>
    /\ toolResults = <<>>
    /\ executed = <<>>
    /\ remoteCalls = 0
    /\ result = NoResult
    /\ conversationLog = <<>>
    /\ session = SessionStart
    /\ returned = <<>>

\* what is observed of a call through fn
Observed(fn, r) ==
    <<[fn |-> fn, threw |-> r.threw, result |-> r.result]>>

ToolCallFrame ==
    UNCHANGED <<call, pc, turnCount, validationAttempts, maxRetries, n8nClient, messages,
                pending, toolResults, result, oracleHabit, oracleCalls, validatorRuns,
                executed, given, conversationLog, session>>

CallExecuteTool ==
    /\ returned = <<>>
    /\ \E r \in {executeTool(Cur, given.toolName, given.args)} :
          /\ returned' = Observed("executeTool", r)
          /\ Install(r.st)
          /\ issued' = IssuedAfter(r.st)
          /\ remoteCalls' = remoteCalls + (IF r.called THEN 1 ELSE 0)
    /\ ToolCallFrame

CallExecuteToolAsync(remote) ==
    /\ returned = <<>>
    /\ \E r \in {executeToolAsync(Cur, n8nClient, given.toolName, given.args, remote)} :
          /\ returned' = Observed("executeToolAsync", r)
          /\ Install(r.st)
          /\ issued' = IssuedAfter(r.st)
          /\ remoteCalls' = remoteCalls + (IF r.called THEN 1 ELSE 0)
    /\ ToolCallFrame

ToolsNext ==
    \/ CallExecuteTool
    \/ \E remote \in RemoteAnswers : CallExecuteToolAsync(remote)

SpecTools == ToolsInit /\ [][ToolsNext]_vars

-----------------------------------------------------------------------------
(* validateWorkflow examined on its own: a workflow object is given, as a  *)
(* caller may build it from any nodes and connections, and the validator   *)
(* is applied to it.                                                       *)

\* the number of nodes of a given workflow
MaxWorkflowNodes == 2

\* node types for the trigger test: 'Trigger' in mixed case, the '.cron' ending in
\* mixed case, and 'cron' that is not at the end
ManualTriggerType == <<"n8n-nodes-base.", "manualTrigger">>
CronType == <<"n8n-nodes-base.", "Cron">>
CronPlusType == <<"n8n-nodes-base.", "cronPlus">>

Node(id, name, type, typeVersion) ==
    [id |-> id, name |-> name, type |-> type, typeVersion |-> typeVersion,
     position |-> GridPosition(0), parameters |-> <<>>, credentials |-> <<>>]

\* the node with its typeVersion raised by one half
PlusHalf(node) ==
    [k \in DOMAIN node \cup {"typeVersionHalf"} |->
        IF k = "typeVersionHalf" THEN TRUE ELSE node[k]]

GivenNodes ==
    {Node(NodeId(1), "Webhook", GoodType, 1),
     Node(NodeId(2), "Slack", PlainType, 1),
     Node(NodeId(3), "Webhook", PlainType, 1),
     Node(NodeId(1), "Credential Sync", PlainType, 2),
     Node(NodeId(1), "Webhook", PlainType, 1),
     Node(NodeId(2), "Slack", BadType, 1),
     Node(NodeId(3), "Webhook", PlainType, 0),
     Node(NodeId(4), "Slack", ManualTriggerType, 1),
     Node(NodeId(5), "Ghost", CronType, 1),
     Node(NodeId(6), "Credential Sync", CronPlusType, 1),
     PlusHalf(Node(NodeId(2), "Slack", PlainType, 1)),
     PlusHalf(Node(<<>>, "", <<>>, -1))}

Target(node, type, index) == [node |-> node, type |-> type, index |-> index]

\* the connections object as the sequence of its entries
GivenConnections ==
    {<<>>,
     <<[source |-> "Webhook", main |-> <<(<<Target("Slack", "main", 0)>>)>>]>>,
     <<[source |-> "Ghost", main |-> <<(<<Target("Slack", "main", 0)>>)>>]>>,
     <<[source |-> "Webhook", main |-> <<(<<Target("Ghost", "main", 0)>>)>>]>>,
     <<[source |-> "Webhook", main |-> <<(<<Target("Slack", "bogus", 0)>>)>>]>>,
     <<[source |-> "Webhook", main |-> <<(<<Target("Slack", "ai_tool", -1)>>)>>]>>,
     <<[source |-> "Slack", main |-> <<(<<Target("", "main", 0)>>)>>]>>,
     <<[source |-> "Webhook", main |-> <<(<<Target("Webhook", "main", 0)>>)>>]>>,
     <<[source |-> "Webhook", main |-> <<(<<Target("Slack", "main", 0)>>)>>],
       [source |-> "Slack", main |-> <<(<<Target("Webhook", "main", 0)>>)>>]>>,
     <<[source |-> "Ghost", main |-> <<(<<Target("Ghost", "main", 0)>>)>>],
       [source |-> "Webhook",
        main |-> <<(<<Target("Slack", "main", 0)>>),
                   (<<Target("Ghost", "main", 1), Target("Webhook", "main", 0)>>)>>]>>}

GivenWorkflows ==
    {[name |-> name, nodes |-> ns, connections |-> cs,
      settings |-> [executionOrder |-> order]] :
        name \in {"My Workflow", ""},
        ns \in UNION {[1..n -> GivenNodes] : n \in 0..MaxWorkflowNodes},
        cs \in GivenConnections,
        order \in {"v1", "v0"}}

ValidateInit ==
    /\ SMInit
    /\ BuildInit
    /\ given \in GivenWorkflows
    /\ returned = <<>>

\* how often the same workflow object is validated
MaxValidations == 2

\* a validator that keeps its errors array between the calls
Validate_SharedErrors ==
    /\ Len(returned) < MaxValidations
    /\ \E r \in {validateWorkflow(given)} :
          LET errors == (IF returned = <<>> THEN <<>> ELSE returned[Len(returned)].errors)
                            \o r.errors
          IN  returned' = Append(returned, [r EXCEPT !.errors = errors,
                                                     !.valid = (errors = <<>>)])
    /\ UNCHANGED <<programVars, given>>

\* one more call of validateWorkflow on the given object; returned holds the
\* results of the calls so far
Validate ==
    /\ Len(returned) < MaxValidations
    /\ returned' = Append(returned, validateWorkflow(given))
    /\ UNCHANGED <<programVars, given>>

SpecValidate == ValidateInit /\ [][Validate]_vars

-----------------------------------------------------------------------------
(* analyzeValidationError examined on its own: an error text is given and  *)
(* the classifier is applied to it.                                        *)

\* the number of fragments of a given error text
MaxTextLen == 2

ErrorFragments ==
    {"Credential Sync", "OAuth2 token expired", "Invalid API Key",
     "AUTHENTICATION failed", "API-key", "Node name is required",
     "Missing parameter", "Invalid enum value", "Unknown node", "connections",
     "Resource not found", "timeout"}

ErrorTexts == UNION {[1..n -> ErrorFragments] : n \in 0..MaxTextLen}

ClassifyInit ==
    /\ SMInit
    /\ BuildInit
    /\ given \in ErrorTexts
    /\ returned = <<>>

Classify ==
    /\ returned = <<>>
    /\ returned' = <<analyzeValidationError(given)>>
    /\ UNCHANGED <<programVars, given>>

SpecClassify == ClassifyInit /\ [][Classify]_vars


-----------------------------------------------------------------------------
(* Properties of the State Manager (SpecState).                            *)

DuplicateNameMessage(name) == <<"Node with name \"", name, "\" already exists">>
SourceNotFoundMessage(name) == <<"Source node \"", name, "\" not found">>
TargetNotFoundMessage(name) == <<"Target node \"", name, "\" not found">>
DuplicateConnectionMessage(source, target) ==
    <<"Connection from \"", source, "\" to \"", target, "\" already exists">>

\* the edge list of a source without the edges to name X
WithoutTarget(conns, X) == LET keep(c) == c.target # X IN SelectSeq(conns, keep)

\* the serialized connections entries of a source
EntriesOf(wf, source) ==
    {i \in 1..Len(wf.connections) : wf.connections[i].source = source}

\* (source, target, sourceOutput, targetInput) is a stored edge
HasEdge(cs, source, target, output, inp) ==
    \E i \in 1..Len(ConnsOf(cs, source)) :
        /\ ConnsOf(cs, source)[i].target = target
        /\ ConnsOf(cs, source)[i].sourceOutput = output
        /\ ConnsOf(cs, source)[i].targetInput = inp

\* C2: in every reachable state, addNode with the name of a node of the graph
\* throws the duplicate-name error and returns the state it was given: same
\* nodes (count and fields), same connections, same ID counter.
C2_DuplicateAddNodeRejected ==
    \A input \in AnyAddNodeInputs :
        HasNode(nodes, input.name) =>
            LET r == addNode(Cur, input)
            IN  /\ r.threw
                /\ r.message = DuplicateNameMessage(input.name)
                /\ r.node = <<>>
                /\ r.st.nodes = nodes
                /\ Len(r.st.nodes) = Len(nodes)
                /\ r.st.connections = connections
                /\ r.st.nodeCounter = nodeCounter

\* a duplicate addNode has just been rejected in a graph of two connected nodes
C2_Witness ==
    /\ call.op = "addNode"
    /\ call.threw
    /\ call.error = "Node with name \""
    /\ Len(nodes) = 2
    /\ connections # <<>>

\* C3: in every reachable state and for every node X of the graph, after
\* removeNode(X) the serialized workflow has no connections entry keyed by X and
\* no target naming X; every other source keeps exactly its edges that do not
\* point to X, in order, and has no entry at all when none is left.
C3_RemoveNodeCascades ==
    \A X \in Names :
        HasNode(nodes, X) =>
            LET r == removeNode(Cur, X)
                wf == toN8nWorkflow(r.st, "W")
            IN  /\ r.ret
                /\ ~HasNode(r.st.nodes, X)
                /\ EntriesOf(wf, X) = {}
                /\ \A i \in 1..Len(wf.connections) :
                     \A slot \in 1..Len(wf.connections[i].main) :
                       \A j \in 1..Len(wf.connections[i].main[slot]) :
                         wf.connections[i].main[slot][j].node # X
                /\ \A S \in Names \ {X} :
                     LET kept == WithoutTarget(ConnsOf(connections, S), X)
                     IN  /\ ConnsOf(r.st.connections, S) = kept
                         /\ (kept = <<>>) <=> (EntriesOf(wf, S) = {})
                         /\ kept # <<>> =>
                              \A i \in EntriesOf(wf, S) :
                                wf.connections[i].main = MainConnections(kept)

\* a node has just been removed from a graph that held three nodes, and an edge
\* between the other two is still stored
C3_Witness ==
    /\ call.op = "removeNode"
    /\ call.ret
    /\ Len(issued) = 3
    /\ Len(nodes) = 2
    /\ EdgeCount(connections) = 1

\* C4: in every reachable state connectNodes throws "Source node not found" when
\* the source is not in the graph (also when the target is missing too), throws
\* "Target node not found" when only the target is missing, changes nothing when
\* it throws, and on success appends exactly one edge at the end of the source's
\* edge list and changes nothing else.
C4_ConnectNodesEndpoints ==
    \A input \in EndpointInputs :
        LET r == connectNodes(Cur, input)
            src == input.sourceNode
        IN  /\ ~HasNode(nodes, src) =>
                 r.threw /\ r.message = SourceNotFoundMessage(src)
            /\ (HasNode(nodes, src) /\ ~HasNode(nodes, input.targetNode)) =>
                 r.threw /\ r.message = TargetNotFoundMessage(input.targetNode)
            /\ r.threw => r.st = Cur
            /\ ~r.threw =>
                 /\ HasNode(nodes, src) /\ HasNode(nodes, input.targetNode)
                 /\ r.st.nodes = nodes
                 /\ r.st.nodeCounter = nodeCounter
                 /\ ConnsOf(r.st.connections, src) =
                      Append(ConnsOf(connections, src), EdgeOf(input))
                 /\ \A S \in Names \ {src} :
                      ConnsOf(r.st.connections, S) = ConnsOf(connections, S)
                 /\ EdgeCount(r.st.connections) = EdgeCount(connections) + 1

\* connectNodes has just failed on a missing target, in a graph that holds an edge
C4_Witness ==
    /\ call.op = "connectNodes"
    /\ call.threw
    /\ call.error = "Target node \""
    /\ EdgeCount(connections) = 1

\* C5: in every reachable state no source is stored twice and no two edges of a
\* source agree on (target, sourceOutput, targetInput); connectNodes between two
\* nodes of the graph throws the duplicate-connection error, changing nothing,
\* exactly when the tuple (omitted sourceOutput and targetInput counted as 0) is
\* already stored, and is accepted otherwise.
C5_NoDuplicateEdges ==
    /\ \A i, j \in 1..Len(connections) :
         i # j => connections[i].source # connections[j].source
    /\ \A e \in 1..Len(connections) :
         \A i, j \in 1..Len(connections[e].conns) :
           i # j =>
             \/ connections[e].conns[i].target # connections[e].conns[j].target
             \/ connections[e].conns[i].sourceOutput # connections[e].conns[j].sourceOutput
             \/ connections[e].conns[i].targetInput # connections[e].conns[j].targetInput
    /\ \A input \in TupleInputs :
         (HasNode(nodes, input.sourceNode) /\ HasNode(nodes, input.targetNode)) =>
            LET r == connectNodes(Cur, input)
                out == IF input.sourceOutput = <<>> THEN 0 ELSE input.sourceOutput[1]
                inp == IF input.targetInput = <<>> THEN 0 ELSE input.targetInput[1]
                stored == HasEdge(connections, input.sourceNode, input.targetNode, out, inp)
            IN  /\ stored => /\ r.threw
                             /\ r.message = DuplicateConnectionMessage(input.sourceNode,
                                                                       input.targetNode)
                             /\ r.st = Cur
                /\ ~stored => ~r.threw

\* a second edge from the same source, differing from the first, is stored
C5_Witness ==
    /\ call.op = "connectNodes"
    /\ ~call.threw
    /\ \E e \in 1..Len(connections) : Len(connections[e].conns) = 2

\* C6: in every reachable state, for each source S with edges, the serialized
\* connections[S].main has length max(sourceOutput of S's edges) + 1 and its slot
\* i holds exactly the targets {node, type, index = targetInput} of S's edges
\* with sourceOutput = i, in the order they were connected.
C6_SlotsOfSerialization ==
    LET wf == toN8nWorkflow(Cur, "W")
    IN  /\ Len(wf.connections) = Len(connections)
        /\ \A e \in 1..Len(connections) :
             LET conns == connections[e].conns
                 main == wf.connections[e].main
                 outputs == {conns[i].sourceOutput : i \in 1..Len(conns)}
             IN  /\ wf.connections[e].source = connections[e].source
                 /\ Len(main) = MaxOf(outputs) + 1
                 /\ \A slot \in 1..Len(main) :
                      LET inSlot(c) == c.sourceOutput = slot - 1
                          group == SelectSeq(conns, inSlot)
                      IN  /\ Len(main[slot]) = Len(group)
                          /\ \A j \in 1..Len(group) :
                               /\ main[slot][j].node = group[j].target
                               /\ main[slot][j].type = group[j].connectionType
                               /\ main[slot][j].index = group[j].targetInput

\* C7: the k-th id returned by a successful addNode since the last reset is
\* node_k; the nodes of the graph have pairwise distinct ids, all of them issued
\* since the last reset; the next successful addNode returns an id not issued
\* before, a failed addNode and a removeNode leave the ID counter alone.
C7_MonotonicIds ==
    /\ \A k \in 1..Len(issued) : issued[k] = NodeId(k)
    /\ \A i, j \in 1..Len(nodes) : i # j => nodes[i].id # nodes[j].id
    /\ \A i \in 1..Len(nodes) : nodes[i].id \in Range(issued)
    /\ \A input \in AnyAddNodeInputs :
         LET r == addNode(Cur, input)
         IN  /\ r.threw => r.st.nodeCounter = nodeCounter
             /\ ~r.threw => /\ r.node[1].id = NodeId(Len(issued) + 1)
                            /\ r.node[1].id \notin Range(issued)
    /\ \A X \in AnyName : removeNode(Cur, X).st.nodeCounter = nodeCounter

\* a third node has just been added after one of the first two was removed
C7_Witness ==
    /\ call.op = "addNode"
    /\ ~call.threw
    /\ Len(issued) = 3
    /\ Len(nodes) = 2
    /\ call.node[1].id = NodeId(3)

-----------------------------------------------------------------------------
(* Properties of the generation loop (Spec, FairSpec).                     *)

NoWorkflowMessage == <<"No workflow was created. Please try a more specific request.">>

\* the tool invocations of the k-th message of the history
ToolUsesOf(k) == SelectSeq(messages[k].content, IsToolUse)

\* the k-th message is a user message made of one tool result per invocation
\* of uses, in the same order and tagged with the invocation's id
AnswersInOrder(k, uses) ==
    /\ messages[k].role = "user"
    /\ Len(messages[k].content) = Len(uses)
    /\ \A j \in 1..Len(uses) :
          /\ messages[k].content[j].type = "tool_result"
          /\ messages[k].content[j].tool_use_id = uses[j].id

\* C1: every BuildResult returned with success = true carries the serialized
\* graph, which has at least one node and which validateWorkflow finds valid,
\* and carries that validation's warnings in validationWarnings; no success is
\* returned for an empty graph or for a graph with a validation error, on the
\* finalize path and on the max-turns path alike.
C1_SuccessIsValidated ==
    (pc = "done" /\ result.success) =>
        /\ nodes # <<>>
        /\ result.workflow = <<toN8nWorkflow(Cur, "Generated Workflow")>>
        /\ Len(result.workflow[1].nodes) >= 1
        /\ validateWorkflow(result.workflow[1]).valid
        /\ validateWorkflow(result.workflow[1]).errors = <<>>
        /\ result.validationWarnings = <<validateWorkflow(result.workflow[1]).warnings>>

\* a success returned on the max-turns path, with a warning carried along
C1_Witness ==
    /\ pc = "done"
    /\ result.success
    /\ turnCount = MAX_TURNS
    /\ messages[Len(messages)].role = "user"
    /\ result.validationWarnings # <<(<<>>)>>

\* C8: one build asks the oracle at most MAX_TURNS = 20 times, the turns spent
\* on validation retries included, and a build that has started always ends
\* with a terminal BuildResult, a success or a failure that carries an error.
C8_BoundedTurnsAndTermination ==
    /\ [](oracleCalls <= MAX_TURNS /\ turnCount = oracleCalls)
    /\ [](pc = "done" => (result.success \/ result.error # <<>>))
    /\ ((pc # "idle") ~> (pc = "done"))

\* a build that spent turns on a validation retry and used up all its turns
C8_Witness ==
    /\ pc = "done"
    /\ oracleCalls = MAX_TURNS
    /\ validationAttempts >= 1
    /\ \E k \in 1..Len(messages) :
          messages[k].role = "user" /\ messages[k].content[1].type = "retry"

\* C9: once the loop has moved on from a response that contains tool
\* invocations, the next message of the history is a user message with one
\* result per invocation, in the order of the response and tagged with the
\* invocation's id: no requested invocation is skipped.
C9_EveryInvocationAnswered ==
    \A k \in 1..Len(messages) :
        (/\ messages[k].role = "assistant"
         /\ ToolUsesOf(k) # <<>>
         /\ (k < Len(messages) \/ pc \in {"turn", "done"}))
        => (k < Len(messages) /\ AnswersInOrder(k + 1, ToolUsesOf(k)))

\* the step appends an assistant response that holds no tool invocation
NoToolResponseStep ==
    /\ Len(messages') > Len(messages)
    /\ messages'[Len(messages) + 1].role = "assistant"
    /\ SelectSeq(messages'[Len(messages) + 1].content, IsToolUse) = <<>>

\* C10: a response without tool invocation makes the loop finalize, no tool
\* being executed: with an empty graph the build ends in failure with the
\* reason that no workflow was created and validateWorkflow is not called;
\* with at least one node validateWorkflow is called once, on the serialized
\* graph, and the build either returns what that validation says or retries.
C10_FinalizeWithoutTools ==
    [][NoToolResponseStep =>
        /\ executed' = executed
        /\ pc' # "tools"
        /\ IF nodes = <<>>
           THEN /\ pc' = "done"
                /\ ~result'.success
                /\ result'.error = NoWorkflowMessage
                /\ validatorRuns' = validatorRuns
           ELSE /\ validatorRuns' = validatorRuns + 1
                /\ pc' = "done" =>
                      result'.success =
                          validateWorkflow(toN8nWorkflow(Cur, "Generated Workflow")).valid
                /\ pc' = "turn" =>
                      ~validateWorkflow(toN8nWorkflow(Cur, "Generated Workflow")).valid]_vars

\* a build ended by a text-only response while the graph was empty
C10_Witness ==
    /\ pc = "done"
    /\ nodes = <<>>
    /\ messages[Len(messages)].role = "assistant"
    /\ ToolUsesOf(Len(messages)) = <<>>
    /\ result.error = NoWorkflowMessage
    /\ validatorRuns = 0

\* the error of a failure returned because the finished graph did not validate
InvalidHead == "Generated workflow is invalid:\n"

\* the classification of the finished graph's validation errors
FinalAnalysis ==
    analyzeValidationError(
        JoinLines(validateWorkflow(toN8nWorkflow(Cur, "Generated Workflow")).errors))

\* the build returned a failure because the graph did not validate when the
\* oracle's last response was finalized
FailedValidation ==
    /\ pc = "done"
    /\ messages[Len(messages)].role = "assistant"
    /\ ~result.success
    /\ result.error # <<>>
    /\ result.error[1] = InvalidHead

\* C11: a build that ends because validation failed, the error being
\* classified non-recoverable or the retry budget being used up, returns a
\* failure with requiresHumanInput = true and with humanInputReason equal to
\* the classification's suggested action.
C11_ValidationFailureAsksHuman ==
    FailedValidation =>
        /\ result.requiresHumanInput = <<TRUE>>
        /\ result.humanInputReason = <<FinalAnalysis.suggestedAction>>

\* the corrective prompts injected so far in this build
RetryPrompts ==
    Cardinality({k \in 1..Len(messages) :
                    /\ messages[k].role = "user"
                    /\ messages[k].content[1].type = "retry"})

\* the step is an oracle turn that finalizes a graph which does not validate
\* and whose errors are classified recoverable
RecoverableFailureStep ==
    /\ pc = "turn"
    /\ turnCount' = turnCount + 1
    /\ validatorRuns' = validatorRuns + 1
    /\ ~validateWorkflow(toN8nWorkflow(Cur, "Generated Workflow")).valid
    /\ FinalAnalysis.recoverable

\* the step answers with a retry: the counter is incremented, the corrective
\* prompt is the next user message and the loop is back at an oracle turn
RetriedStep ==
    /\ pc' = "turn"
    /\ validationAttempts' = validationAttempts + 1
    /\ messages'[Len(messages')] =
          Message("user",
                  buildRetryPrompt(
                      JoinLines(validateWorkflow(toN8nWorkflow(Cur, "Generated Workflow")).errors),
                      FinalAnalysis))

\* C12: with a retry budget R = maxRetries, a validation failure classified
\* recoverable is answered with a retry exactly when fewer than R retries have
\* been performed so far in this build, so that up to R corrective prompts are
\* injected and never more than R.
C12_RetryWhileBudgetLeft ==
    [][RecoverableFailureStep => (RetriedStep <=> RetryPrompts < maxRetries)]_vars

\* the reasons with which the turn-bound exit asks for a simpler request
SimplifyReasons ==
    {"Maximum turns reached. Please simplify your request or provide more specific instructions.",
     "Unable to complete the workflow within the turn limit. Please try a simpler request."}

\* the step leaves the loop because the turn bound is reached
MaxTurnsStep ==
    /\ pc = "turn"
    /\ ~LoopContinues(turnCount)
    /\ pc' = "done"

\* C13: when the turn bound is reached without a result, the loop validates
\* the graph that exists once more (one validator call when there is a node,
\* none for the empty graph) and returns a success exactly when the graph is
\* non-empty and valid; otherwise, for the empty graph and for an invalid one,
\* it returns a failure with requiresHumanInput = true and a reason that asks
\* the human to simplify the request.
C13_MaxTurnsResolution ==
    [][MaxTurnsStep =>
         LET workflow == toN8nWorkflow(Cur, "Generated Workflow")
         IN  /\ validatorRuns' = validatorRuns + (IF nodes # <<>> THEN 1 ELSE 0)
             /\ result'.success <=> (nodes # <<>> /\ validateWorkflow(workflow).valid)
             /\ result'.success => result'.workflow = <<workflow>>
             /\ ~result'.success =>
                    /\ result'.error # <<>>
                    /\ result'.requiresHumanInput = <<TRUE>>
                    /\ Len(result'.humanInputReason) = 1
                    /\ result'.humanInputReason[1] \in SimplifyReasons]_vars

\* the turn bound was reached with a graph that does not validate
C13_Witness ==
    /\ pc = "done"
    /\ turnCount = MAX_TURNS
    /\ messages[Len(messages)].role = "user"
    /\ nodes # <<>>
    /\ ~result.success
    /\ result.requiresHumanInput = <<TRUE>>
    /\ result.humanInputReason[1] \in SimplifyReasons

-----------------------------------------------------------------------------
(* Properties of the classifier (SpecClassify).                            *)

\* the fragments that mention credential, OAuth, API key or authentication,
\* in whatever case
CredentialFragments ==
    {"Credential Sync", "OAuth2 token expired", "Invalid API Key",
     "AUTHENTICATION failed"}

\* the fragments that hold one of the recoverable keywords
RecoverableFragments ==
    {"Invalid API Key", "Node name is required", "Missing parameter",
     "Invalid enum value", "Unknown node", "connections", "Resource not found"}

MentionsCredentials(text) == \E i \in 1..Len(text) : text[i] \in CredentialFragments

\* C14: the classifier returns recoverable = false for every error text that
\* mentions credential, OAuth, API key or authentication, in any case and
\* whatever else the text holds, recoverable keywords included, and it returns
\* recoverable = true for every other text.
C14_CredentialsAreNotRecoverable ==
    returned # <<>> => (returned[1].recoverable <=> ~MentionsCredentials(given))

\* a text that names a recoverable keyword first and a credential after it
C14_Witness ==
    /\ returned # <<>>
    /\ Len(given) = 2
    /\ given[1] \in RecoverableFragments \ CredentialFragments
    /\ given[2] \in CredentialFragments
    /\ ~returned[1].recoverable

-----------------------------------------------------------------------------
(* Properties of the tool surface (SpecTools and Spec).                    *)

\* the State Manager errors a well-formed call can run into, with the tool's
\* prefix
StateManagerFailures ==
    {<<"Error adding node: ">> \o DuplicateNameMessage("Webhook"),
     <<"Error connecting nodes: ">> \o SourceNotFoundMessage("Webhook"),
     <<"Error connecting nodes: ">> \o SourceNotFoundMessage("Slack"),
     <<"Error connecting nodes: ">> \o TargetNotFoundMessage("Webhook"),
     <<"Error connecting nodes: ">> \o TargetNotFoundMessage("Slack"),
     <<"Error connecting nodes: ">> \o DuplicateConnectionMessage("Webhook", "Slack"),
     <<"Error updating parameters: ">> \o <<"Node \"", "Slack", "\" not found">>}

\* the asynchronous tools called through the synchronous entry point
AsyncThroughSync ==
    /\ returned[1].fn = "executeTool"
    /\ given.toolName \in {"validate_workflow_with_n8n", "create_workflow_in_n8n"}

\* C15: for every tool name and every argument object executeTool and
\* executeToolAsync return a result and never throw: an unknown tool name
\* gives a failure that mentions 'Unknown tool', arguments that violate the
\* tool's contract give a failure that mentions 'Invalid arguments', a State
\* Manager error gives success = false with the error text, and whenever
\* success is false the graph state is unchanged.
C15_ToolsNeverThrow ==
    returned # <<>> =>
        /\ ~returned[1].threw
        /\ given.toolName \notin ToolNames =>
              /\ ~returned[1].result.success
              /\ returned[1].result.message[1] = "Unknown tool: "
        /\ (Invocation(given.toolName, given.args) \in IllFormedInvocations
                /\ ~AsyncThroughSync) =>
              /\ ~returned[1].result.success
              /\ returned[1].result.message[1] = "Invalid arguments: "
        /\ (Invocation(given.toolName, given.args) \in WellFormedInvocations
                /\ given.toolName \in {"add_node", "connect_nodes",
                                        "update_node_parameters"}
                /\ ~returned[1].result.success) =>
              returned[1].result.message \in StateManagerFailures
        /\ ~returned[1].result.success => Cur = given.before

N8nTools == {"validate_workflow_with_n8n", "create_workflow_in_n8n"}

NotConfiguredMessages ==
    {<<"n8n API is not configured. Set N8N_API_KEY environment variable to enable n8n validation.">>,
     <<"n8n API is not configured. Set N8N_API_KEY environment variable to enable n8n integration.">>}

\* the step executes a well-formed call of one of the two n8n tools while the
\* external service client is not initialized
UnconfiguredN8nToolStep ==
    /\ pc = "tools"
    /\ ~n8nClient
    /\ pending[Len(toolResults) + 1].name \in N8nTools
    /\ safeParse(pending[Len(toolResults) + 1].name,
                 pending[Len(toolResults) + 1].input).success

\* the tool result the step reports
ReportedResult ==
    IF pc' = "tools"
    THEN toolResults'[Len(toolResults')]
    ELSE messages'[Len(messages')].content[Len(pending)]

\* C16: while the external service client is not initialized, each of
\* validate_workflow_with_n8n and create_workflow_in_n8n returns success =
\* false with a 'not configured' message, makes no call to the external
\* service and leaves the graph state unchanged, and the generation loop goes
\* on to its next step instead of ending.
C16_UnconfiguredN8nToolsAreNoOps ==
    [][UnconfiguredN8nToolStep =>
         /\ \A remote \in RemoteAnswers :
               ~executeToolAsync(Cur, n8nClient, pending[Len(toolResults) + 1].name,
                                 pending[Len(toolResults) + 1].input,
                                 remote).result.success
         /\ ReportedResult.tool_use_id = pending[Len(toolResults) + 1].id
         /\ ReportedResult.content \in {[text |-> m] : m \in NotConfiguredMessages}
         /\ remoteCalls' = remoteCalls
         /\ <<nodes, connections, nodeCounter>>' = <<nodes, connections, nodeCounter>>
         /\ pc' = (IF Len(toolResults) + 1 = Len(pending) THEN "turn" ELSE "tools")
         /\ result' = result]_vars

\* both n8n tools were called without a client and the loop is at its next turn
C16_Witness ==
    /\ pc = "turn"
    /\ ~n8nClient
    /\ remoteCalls = 0
    /\ \E k \in 1..Len(messages) :
          /\ messages[k].role = "user"
          /\ Len(messages[k].content) = 3
          /\ messages[k].content[2].type = "tool_result"
          /\ messages[k].content[2].content \in
                {[text |-> m] : m \in NotConfiguredMessages}
          /\ messages[k].content[3].content \in
                {[text |-> m] : m \in NotConfiguredMessages}
          /\ messages[k].content[2].content # messages[k].content[3].content

-----------------------------------------------------------------------------
(* Properties of the validator (SpecValidate).                             *)

\* twice the typeVersion of a node
TwiceTypeVersion(node) ==
    2 * node.typeVersion + (IF "typeVersionHalf" \in DOMAIN node THEN 1 ELSE 0)

NodeRules ==
    {"id is not empty", "name is not empty", "type is not empty",
     "type has a recognized prefix", "typeVersion is an integer",
     "typeVersion is positive"}

NodeBreaks(node, rule) ==
    CASE rule = "id is not empty" -> Len(node.id) = 0
      [] rule = "name is not empty" -> node.name = ""
      [] rule = "type is not empty" -> Len(node.type) = 0
      [] rule = "type has a recognized prefix" ->
            \A prefix \in RecognizedPrefixes :
                Len(node.type) = 0 \/ node.type[1] # prefix
      [] rule = "typeVersion is an integer" -> TwiceTypeVersion(node) % 2 = 1
      [] rule = "typeVersion is positive" -> TwiceTypeVersion(node) <= 0

TargetRules == {"node is not empty", "type is in the closed set", "index is not negative"}

TargetBreaks(conn, rule) ==
    CASE rule = "node is not empty" -> conn.node = ""
      [] rule = "type is in the closed set" ->
            conn.type \notin {"main", "ai_tool", "ai_languageModel", "ai_memory"}
      [] rule = "index is not negative" -> conn.index < 0

\* the positions of the connection targets: entry, output slot, place in it
TargetPositions(cs) ==
    UNION {UNION {{[i |-> i, s |-> s, j |-> j] : j \in 1..Len(cs[i].main[s])} :
                    s \in 1..Len(cs[i].main)} :
             i \in 1..Len(cs)}

\* how many constraints of the structural schema the workflow violates
ViolationCount(w) ==
    (IF w.name = "" THEN 1 ELSE 0)
    + (IF Len(w.nodes) = 0 THEN 1 ELSE 0)
    + Cardinality({v \in (1..Len(w.nodes)) \X NodeRules : NodeBreaks(w.nodes[v[1]], v[2])})
    + Cardinality({v \in TargetPositions(w.connections) \X TargetRules :
                      TargetBreaks(w.connections[v[1].i].main[v[1].s][v[1].j], v[2])})
    + (IF w.settings.executionOrder # "v1" THEN 1 ELSE 0)

NodeNamesOf(w) == {w.nodes[i].name : i \in 1..Len(w.nodes)}

\* the texts of the semantic phase
NoTriggerWarning ==
    <<"Workflow has no trigger node. It can only be executed manually via API.">>
OrphanWarning(name) == <<"Node \"", name, "\" has no incoming connections">>
DuplicateNameError(name) == <<"Duplicate node name: \"", name, "\"">>
DuplicateIdError == <<"Duplicate node IDs detected">>
DanglingSourceError(source) ==
    <<"Connection source \"", source, "\" does not exist as a node">>
DanglingTargetError(target, source) ==
    <<"Connection target \"", target, "\" (from \"", source,
      "\") does not exist as a node">>

\* how many of the texts start with head
CountHead(texts, head) == Cardinality({k \in 1..Len(texts) : texts[k][1] = head})

\* the given node types that contain 'trigger' or 'webhook' in any case or end
\* with '.cron'
TriggerTypes == {GoodType, ManualTriggerType, CronType}

\* the nodes that no connection leads to, in a workflow of several nodes
Orphans(w) ==
    {i \in 1..Len(w.nodes) :
        /\ Len(w.nodes) > 1
        /\ w.nodes[i].type \notin TriggerTypes
        /\ \A p \in TargetPositions(w.connections) :
              w.connections[p.i].main[p.s][p.j].node # w.nodes[i].name}

\* C17: validateWorkflow returns valid = true exactly when its errors are
\* empty, and warnings never change validity: a structurally valid workflow
\* without error that has no trigger-like node, or that has orphan nodes, is
\* reported valid with the corresponding warnings.
C17_ValidIffNoErrors ==
    returned # <<>> =>
        /\ returned[1].valid <=> returned[1].errors = <<>>
        /\ (ViolationCount(given) = 0 /\ returned[1].errors = <<>>) =>
              /\ returned[1].valid
              /\ (\A i \in 1..Len(given.nodes) : given.nodes[i].type \notin TriggerTypes)
                    <=> NoTriggerWarning \in Range(returned[1].warnings)
              /\ \A i \in 1..Len(given.nodes) :
                    i \in Orphans(given)
                        <=> OrphanWarning(given.nodes[i].name) \in Range(returned[1].warnings)

\* a workflow of two unconnected nodes, none of them a trigger, found valid
\* with three warnings
C17_Witness ==
    /\ returned # <<>>
    /\ ViolationCount(given) = 0
    /\ Cardinality(Orphans(given)) = 2
    /\ returned[1].valid
    /\ Len(returned[1].warnings) = 3

\* C18: a workflow that violates the structural schema in any way (empty
\* name, no node, node type without a recognized prefix, typeVersion that is
\* not positive or not an integer, target type outside the closed set,
\* negative target index, executionOrder other than 'v1') is returned with
\* valid = false and one error per violated constraint, and no semantic check
\* runs: there is no duplicate-name, duplicate-id or dangling-reference error
\* and no warning.
C18_SchemaViolationShortCircuits ==
    (returned # <<>> /\ ViolationCount(given) > 0) =>
        /\ ~returned[1].valid
        /\ Len(returned[1].errors) = ViolationCount(given)
        /\ \A k \in 1..Len(returned[1].errors) :
              /\ returned[1].errors[k][1] \in {"name", "nodes", "connections", "settings"}
              /\ returned[1].errors[k][1] \notin
                    {DuplicateNameError("")[1], DuplicateIdError[1],
                     DanglingSourceError("")[1], DanglingTargetError("", "")[1]}
        /\ returned[1].warnings = <<>>

\* a workflow with one schema violation (typeVersion 0) whose nodes also share
\* a name and whose connections dangle: one error, the schema's
C18_Witness ==
    /\ returned # <<>>
    /\ ViolationCount(given) = 1
    /\ \E i \in 1..Len(given.nodes) : given.nodes[i].typeVersion = 0
    /\ Cardinality(NodeNamesOf(given)) < Len(given.nodes)
    /\ \E i \in 1..Len(given.connections) :
          given.connections[i].source \notin NodeNamesOf(given)
    /\ ~returned[1].valid
    /\ Len(returned[1].errors) = 1
    /\ returned[1].warnings = <<>>

DanglingKeys(w) ==
    {i \in 1..Len(w.connections) : w.connections[i].source \notin NodeNamesOf(w)}

DanglingTargets(w) ==
    {p \in TargetPositions(w.connections) :
        w.connections[p.i].main[p.s][p.j].node \notin NodeNamesOf(w)}

\* C19: for a structurally valid workflow validateWorkflow reports one error
\* for every connections key that is not the name of a node and one error for
\* every connection target whose node name is not the name of a node, each
\* naming the missing node and saying that it does not exist, and it reports
\* no dangling-reference error when every key and every target names a node.
C19_DanglingReferences ==
    (returned # <<>> /\ ViolationCount(given) = 0) =>
        /\ CountHead(returned[1].errors, DanglingSourceError("")[1])
              = Cardinality(DanglingKeys(given))
        /\ \A i \in DanglingKeys(given) :
              DanglingSourceError(given.connections[i].source)
                  \in Range(returned[1].errors)
        /\ CountHead(returned[1].errors, DanglingTargetError("", "")[1])
              = Cardinality(DanglingTargets(given))
        /\ \A p \in DanglingTargets(given) :
              DanglingTargetError(given.connections[p.i].main[p.s][p.j].node,
                                  given.connections[p.i].source)
                  \in Range(returned[1].errors)
        /\ (DanglingKeys(given) # {} \/ DanglingTargets(given) # {}) => ~returned[1].valid

\* a structurally valid workflow with a dangling key and two dangling targets
C19_Witness ==
    /\ returned # <<>>
    /\ ViolationCount(given) = 0
    /\ Cardinality(DanglingKeys(given)) = 1
    /\ Cardinality(DanglingTargets(given)) = 2
    /\ Len(returned[1].errors) = 3

\* the nodes whose name already occurred earlier in the node sequence
RepeatedNames(w) ==
    {i \in 1..Len(w.nodes) : \E j \in 1..(i - 1) : w.nodes[j].name = w.nodes[i].name}

SharedId(w) ==
    \E i, j \in 1..Len(w.nodes) : i # j /\ w.nodes[i].id = w.nodes[j].id

\* C20: for a structurally valid workflow validateWorkflow reports a
\* 'Duplicate node name' error exactly when two nodes share a name, one error
\* per node whose name already occurred earlier in the node sequence, and one
\* duplicate-ID error exactly when two nodes share an id; either makes the
\* workflow invalid.
C20_DuplicateNamesAndIds ==
    (returned # <<>> /\ ViolationCount(given) = 0) =>
        /\ CountHead(returned[1].errors, DuplicateNameError("")[1])
              = Cardinality(RepeatedNames(given))
        /\ \A i \in RepeatedNames(given) :
              DuplicateNameError(given.nodes[i].name) \in Range(returned[1].errors)
        /\ CountHead(returned[1].errors, DuplicateIdError[1])
              = (IF SharedId(given) THEN 1 ELSE 0)
        /\ (RepeatedNames(given) # {} \/ SharedId(given)) => ~returned[1].valid

\* two nodes that share their name and their id
C20_Witness ==
    /\ returned # <<>>
    /\ ViolationCount(given) = 0
    /\ RepeatedNames(given) # {}
    /\ SharedId(given)
    /\ DuplicateIdError \in Range(returned[1].errors)
    /\ CountHead(returned[1].errors, DuplicateNameError("")[1]) = 1

\* C21: for a structurally valid workflow validateWorkflow warns that a node
\* 'has no incoming connections' exactly when the workflow has more than one
\* node, the node is not trigger-like (its type holds neither 'trigger' nor
\* 'webhook' in any case and does not end with '.cron') and no connection
\* leads to the node; the only node of a workflow and trigger-like nodes never
\* get this warning.
C21_OrphanWarnings ==
    (returned # <<>> /\ ViolationCount(given) = 0) =>
        /\ \A i \in 1..Len(given.nodes) :
              OrphanWarning(given.nodes[i].name) \in Range(returned[1].warnings)
                  <=> \E j \in Orphans(given) : given.nodes[j].name = given.nodes[i].name
        /\ CountHead(returned[1].warnings, OrphanWarning("")[1])
              = Cardinality(Orphans(given))
        /\ Len(given.nodes) = 1 => CountHead(returned[1].warnings, OrphanWarning("")[1]) = 0

\* two unconnected nodes, a trigger named in mixed case and a node whose type
\* only contains 'cron': the second one alone gets the warning
C21_Witness ==
    /\ returned # <<>>
    /\ ViolationCount(given) = 0
    /\ Len(given.nodes) = 2
    /\ given.nodes[1].type = ManualTriggerType
    /\ given.nodes[2].type = CronPlusType
    /\ given.connections = <<>>
    /\ returned[1].warnings = <<OrphanWarning(given.nodes[2].name)>>

-----------------------------------------------------------------------------
(* The State Manager with every mutating method, each call recorded with   *)
(* its arguments and the state it was made in.                             *)

MissingName == "Missing"

\* partial parameter objects: {} , { path } and { path, method }
ParameterUpdates ==
    {<<>>, [path |-> "hook"], [path |-> "other", method |-> "POST"]}

ManagerConnectInputs ==
    {[sourceNode |-> "Webhook", targetNode |-> "Slack", sourceOutput |-> <<>>,
      targetInput |-> <<>>, connectionType |-> <<>>],
     [sourceNode |-> "Slack", targetNode |-> "Credential Sync", sourceOutput |-> <<>>,
      targetInput |-> <<>>, connectionType |-> <<>>]}

\* the arguments of a call and the state before it
Recorded(name, parameters) == [before |-> Cur, name |-> name, parameters |-> parameters]

ManagerAddNode(input) ==
    /\ nodeCounter < MaxNodeCounter
    /\ \E r \in {addNode(Cur, input)} :
         /\ Install(r.st)
         /\ call' = [op |-> "addNode", threw |-> r.threw,
                     error |-> ErrorHead(r.message), ret |-> FALSE, node |-> r.node]
         /\ issued' = IF r.threw THEN issued ELSE Append(issued, r.node[1].id)
    /\ given' = Recorded(input.name, input.parameters)
    /\ UNCHANGED <<buildVars, returned>>

ManagerRemoveNode(name) ==
    /\ \E r \in {removeNode(Cur, name)} :
         /\ Install(r.st)
         /\ call' = [NoCall EXCEPT !.op = "removeNode", !.ret = r.ret]
    /\ given' = Recorded(name, <<>>)
    /\ UNCHANGED <<issued, buildVars, returned>>

ManagerConnectNodes(input) ==
    /\ EdgeCount(connections) < MaxEdges
    /\ \E r \in {connectNodes(Cur, input)} :
         /\ Install(r.st)
         /\ call' = [NoCall EXCEPT !.op = "connectNodes", !.threw = r.threw,
                                   !.error = ErrorHead(r.message)]
    /\ given' = Recorded(input.sourceNode, <<>>)
    /\ UNCHANGED <<issued, buildVars, returned>>

ManagerUpdateNodeParameters(name, parameters) ==
    /\ \E r \in {updateNodeParameters(Cur, name, parameters)} :
         /\ Install(r.st)
         /\ call' = [NoCall EXCEPT !.op = "updateNodeParameters", !.threw = r.threw,
                                   !.error = ErrorHead(r.message)]
    /\ given' = Recorded(name, parameters)
    /\ UNCHANGED <<issued, buildVars, returned>>

ManagerReset ==
    /\ Install(reset(Cur))
    /\ call' = [NoCall EXCEPT !.op = "reset"]
    /\ issued' = <<>>
    /\ given' = Recorded("", <<>>)
    /\ UNCHANGED <<buildVars, returned>>

ManagerNext ==
    \/ \E input \in AddNodeInputs : ManagerAddNode(input)
    \/ \E name \in {"Webhook", "Slack"} : ManagerRemoveNode(name)
    \/ \E input \in ManagerConnectInputs : ManagerConnectNodes(input)
    \/ \E name \in {"Webhook", MissingName}, parameters \in ParameterUpdates :
            ManagerUpdateNodeParameters(name, parameters)
    \/ ManagerReset

SpecManager == Init /\ [][ManagerNext]_vars

\* C23: updateNodeParameters(name, p) throws a not-found error and changes
\* nothing when the graph has no node called name; otherwise the parameters of
\* that node become the shallow merge of its old parameters with p (the keys of
\* p overwrite, the other keys are kept) while its id, name, type, typeVersion
\* and position, every other node, all connections and the counter stay as
\* they were.
C23_UpdateNodeParametersFrame ==
    call.op = "updateNodeParameters" =>
        LET before == given.before
            p == given.parameters
        IN  IF ~(\E i \in 1..Len(before.nodes) : before.nodes[i].name = given.name)
            THEN /\ call.threw
                 /\ call.error = "Node \""
                 /\ Cur = before
            ELSE /\ ~call.threw
                 /\ connections = before.connections
                 /\ nodeCounter = before.nodeCounter
                 /\ Len(nodes) = Len(before.nodes)
                 /\ \A i \in 1..Len(nodes) :
                       LET old == before.nodes[i].parameters
                           new == nodes[i].parameters
                       IN  IF before.nodes[i].name = given.name
                           THEN /\ [nodes[i] EXCEPT !.parameters = old] = before.nodes[i]
                                /\ DOMAIN new = (DOMAIN old) \cup (DOMAIN p)
                                /\ \A k \in DOMAIN p : new[k] = p[k]
                                /\ \A k \in (DOMAIN old) \ (DOMAIN p) : new[k] = old[k]
                           ELSE nodes[i] = before.nodes[i]

\* { path } merged into the { path, method } of a connected node: path is
\* overwritten and method kept
C23_Witness ==
    /\ call.op = "updateNodeParameters"
    /\ ~call.threw
    /\ given.parameters = [path |-> "hook"]
    /\ getNode(given.before.nodes, given.name).parameters
           = [path |-> "other", method |-> "POST"]
    /\ getNode(nodes, given.name).parameters = [path |-> "hook", method |-> "POST"]
    /\ Len(nodes) > 1
    /\ connections # <<>>

\* the state of a freshly constructed manager
FreshManager == State(<<>>, <<>>, 0)

\* C24: reset clears nodes, connections and the ID counter: whatever the state
\* it is called in, the state it leaves is the state of a freshly constructed
\* manager, so every following sequence of operations behaves as on a fresh
\* one; the next node added gets id node_1 at (100, 100) and the serialized
\* workflow has no nodes and no connections.
C24_ResetIsFresh ==
    call.op = "reset" =>
        /\ Cur = FreshManager
        /\ Cur = reset(given.before)
        /\ \A input \in AddNodeInputs :
              \E r \in {addNode(Cur, input)} :
                 /\ ~r.threw
                 /\ r.node[1].id = NodeId(1)
                 /\ r.node[1].position = <<100, 100>>
                 /\ r.st = addNode(FreshManager, input).st
        /\ \A name \in Names : removeNode(Cur, name) = removeNode(FreshManager, name)
        /\ \E w \in {toN8nWorkflow(Cur, <<"w">>)} :
              /\ w.nodes = <<>>
              /\ w.connections = <<>>

\* reset called on a graph with nodes, a connection and a used counter
C24_Witness ==
    /\ call.op = "reset"
    /\ Len(given.before.nodes) > 1
    /\ given.before.connections # <<>>
    /\ given.before.nodeCounter > Len(given.before.nodes)
    /\ nodes = <<>>

\* C29: the n-th node added, counting from zero the successful addNode calls
\* since the last reset, is placed at
\* (100 + (n mod 4) * 250, 100 + floor(n / 4) * 150).
C29_GridLayout ==
    (call.op = "addNode" /\ ~call.threw) =>
        call.node[1].position = GridPosition(Len(issued) - 1)

\* C30: no two nodes present in the graph have the same position.
C30_NonOverlappingLayout ==
    \A i, j \in 1..Len(nodes) : i # j => nodes[i].position # nodes[j].position

-----------------------------------------------------------------------------
(* The interactive mode: runInteractiveMode asks a question, and the       *)
(* callback of the question handles one line: a command, or a prompt that  *)
(* is built with the log of the last build as continueFrom. The question   *)
(* is asked again only when the handling is over. A line that arrives      *)
(* while no question is pending has no listener.                           *)

\* how many prompts a session is given
MaxPrompts == 2

AddWebhook ==
    Response(<<ToolUse("add_node", AddNodeArgs("Webhook", GoodType, 1))>>, "tool_use")
UpdateWebhook ==
    Response(<<ToolUse("update_node_parameters",
                       [nodeName |-> <<"Webhook">>,
                        parameters |-> <<[path |-> "hook"]>>]),
               ToolUse("validate_workflow_with_n8n",
                       [workflowName |-> <<"My Workflow">>]),
               ToolUse("create_workflow_in_n8n",
                       [workflowName |-> <<"My Workflow">>])>>,
             "tool_use")

\* how many turns of a build of a session the oracle answers freely
SessionScriptedTurns == 1

\* the scripted turns draw from the responses, the later ones follow the habit
ScriptedChoices(responses) ==
    IF turnCount < SessionScriptedTurns THEN responses
    ELSE IF oracleHabit = "poll" THEN {Poll}
    ELSE {Finish}

\* what the oracle answers in its scripted turns during a session
SessionResponses == {Finish, AddWebhook}
SessionChoices == ScriptedChoices(SessionResponses)

\* lastBuildResult?.conversationLog
LastLog(last) == IF last = <<>> THEN <<>> ELSE <<last[1].conversationLog>>

\* the callback that asks the next question at once, before the build returns
PromptLine_AsksAtOnce(habit) ==
    /\ session.questionPending
    /\ session.prompts < MaxPrompts
    /\ StartBuild(LastLog(session.lastBuildResult), DEFAULT_MAX_VALIDATION_RETRIES,
                  <<>>, habit)
    /\ session' = [session EXCEPT !.running = @ + 1, !.prompts = @ + 1]

\* a line that is not a command: executeWorkflow is called and awaited
PromptLine(habit) ==
    /\ session.questionPending
    /\ session.prompts < MaxPrompts
    /\ StartBuild(LastLog(session.lastBuildResult), DEFAULT_MAX_VALIDATION_RETRIES,
                  <<>>, habit)
    /\ session' = [session EXCEPT !.questionPending = FALSE, !.running = @ + 1,
                                  !.prompts = @ + 1]

\* the awaited build returns: its result becomes lastBuildResult, its locals
\* are gone, and the next question is asked
BuildReturns ==
    /\ pc = "done"
    /\ session.running > 0
    /\ session' = [session EXCEPT
                     !.lastBuildResult = <<[success |-> result.success,
                                            conversationLog |-> conversationLog]>>,
                     !.running = @ - 1,
                     !.questionPending = TRUE]
    /\ pc' = "idle"
    /\ messages' = <<>>
    /\ conversationLog' = <<>>
    /\ result' = NoResult
    /\ turnCount' = 0
    /\ validationAttempts' = 0
    /\ oracleCalls' = 0
    /\ validatorRuns' = 0
    /\ executed' = <<>>
    /\ remoteCalls' = 0
    /\ pending' = <<>>
    /\ toolResults' = <<>>
    /\ UNCHANGED <<nodes, connections, nodeCounter, call, issued, maxRetries, n8nClient,
                   oracleHabit, given, returned>>

\* the command /new
CommandNew ==
    /\ session.questionPending
    /\ Install(reset(Cur))
    /\ issued' = <<>>
    /\ session' = [session EXCEPT !.lastBuildResult = <<>>]
    /\ UNCHANGED <<call, pc, turnCount, validationAttempts, maxRetries, n8nClient,
                   messages, pending, toolResults, result, oracleHabit, oracleCalls,
                   validatorRuns, executed, remoteCalls, conversationLog, given,
                   returned>>

\* a line typed while the callback is still handling the previous one
LineWhileBusy ==
    /\ ~session.questionPending
    /\ session' = [session EXCEPT !.unread = TRUE]
    /\ UNCHANGED <<nodes, connections, nodeCounter, call, issued, pc, turnCount,
                   validationAttempts, maxRetries, n8nClient, messages, pending,
                   toolResults, result, oracleHabit, oracleCalls, validatorRuns,
                   executed, remoteCalls, conversationLog, given, returned>>

SessionNext ==
    \/ \E habit \in {"finish", "poll"} : PromptLine(habit)
    \/ BuildReturns
    \/ CommandNew
    \/ LineWhileBusy
    \/ \E response \in SessionChoices : TurnFinalize(response)
    \/ \E response \in SessionChoices : TurnToolUse(response)
    \/ OracleThrows
    \/ \E remote \in RemoteAnswers : ExecTool(remote)
    \/ MaxTurns

SpecSession == Init /\ [][SessionNext]_vars

\* one loop at most, and none while a question is pending
OneLoop ==
    /\ session.running <= 1
    /\ session.questionPending => (session.running = 0 /\ pc = "idle")
    /\ pc # "idle" => session.running = 1

\* a prompt is accepted, a result is stored or dropped and the graph is changed
\* only when no other build is running
Accepted ==
    /\ session'.prompts # session.prompts =>
          (session.running = 0 /\ pc = "idle" /\ session'.running = 1)
    /\ session'.lastBuildResult # session.lastBuildResult =>
          (pc \in {"idle", "done"} /\ pc' = "idle" /\ session'.running = 0)
    /\ <<nodes, connections, nodeCounter>>' # <<nodes, connections, nodeCounter>> =>
          \/ pc = "tools" /\ session.running = 1 /\ ~session.questionPending
          \/ pc = "idle" /\ session.running = 0

\* C28: single flight: at most one generation loop runs against the shared
\* graph; while one runs no question is pending, so a prompt or a command is
\* accepted only after the previous build returned, and the graph is changed
\* only by the tools of the one running build or by a command between builds.
C28_SingleFlight == []OneLoop /\ [][Accepted]_vars

\* the tools of the second build are running, a line was typed meanwhile and
\* no question is pending
C28_Witness ==
    /\ session.prompts = 2
    /\ session.running = 1
    /\ ~session.questionPending
    /\ session.unread
    /\ pc = "tools"
    /\ session.lastBuildResult # <<>>
    /\ nodes # <<>>

\* C27: when a build continues a conversation, the history presented to the
\* oracle on its first turn is seeded from the log of the prior build: the
\* earlier exchange comes before the new user prompt.
C27_ContinuationSeedsHistory ==
    (/\ pc = "turn"
     /\ turnCount = 0
     /\ session.running = 1
     /\ LastLog(session.lastBuildResult) # <<>>
     /\ LastLog(session.lastBuildResult)[1] # <<>>) =>
        /\ Len(messages) > 1
        /\ messages[Len(messages)].content = <<[type |-> "prompt"]>>

\* each step of a build leaves the messages it found in place and adds at
\* most at the end: the assistant message of the turn, then the corrective
\* prompt or the results of the tools of that turn, one for each invocation
HistoryGrows ==
    pc # "idle" =>
        /\ Len(messages') >= Len(messages)
        /\ SubSeq(messages', 1, Len(messages)) = messages
        /\ (pc = "turn" /\ pc' # "done" /\ turnCount' # turnCount) =>
              messages'[Len(messages) + 1].role = "assistant"
        /\ (pc = "turn" /\ pc' = "turn") =>
              /\ Len(messages') = Len(messages) + 2
              /\ messages'[Len(messages')].role = "user"
        /\ (pc = "tools" /\ pc' = "turn") =>
              /\ Len(messages') = Len(messages) + 1
              /\ messages'[Len(messages')].role = "user"
              /\ [i \in 1..Len(pending) |-> messages'[Len(messages')].content[i].tool_use_id]
                    = [i \in 1..Len(pending) |-> pending[i].id]
        /\ (pc = "tools" /\ pc' # "turn") => messages' = messages

\* the request of a turn starts with the user prompt and holds the assistant
\* message of every earlier turn
HistoryComplete ==
    pc \in {"turn", "tools"} =>
        /\ messages[1] = Message("user", <<[type |-> "prompt"]>>)
        /\ Cardinality({i \in 1..Len(messages) : messages[i].role = "assistant"})
              = turnCount

\* C26: within one build the message history sent to the oracle is append-only:
\* the request of a turn holds, in order, the user prompt, every earlier
\* assistant response, every tool-result message and every corrective prompt;
\* no earlier message is dropped, reordered or altered.
C26_HistoryAppendOnly == []HistoryComplete /\ [][HistoryGrows]_vars

\* the request of a third turn: the prompt, an assistant message, its tool
\* results, a second assistant message and a corrective prompt
C26_Witness ==
    /\ pc = "turn"
    /\ turnCount = 2
    /\ validationAttempts = 1
    /\ Len(messages) = 5
    /\ [i \in 1..5 |-> messages[i].role]
          = <<"user", "assistant", "user", "assistant", "user">>

-----------------------------------------------------------------------------
(* One build after another: buildWorkflow is called on the graph that an   *)
(* earlier build left, with or without the log of that build.              *)

\* the log of a build whose oracle answered with text
PriorLog == <<LogLine("Assistant: ", "done", <<>>)>>

\* continueFrom: omitted, an empty log or a log with a line
RebuildOptions == {<<>>, <<<<>>>>, <<PriorLog>>}

RebuildInit ==
    /\ BuildInit
    /\ \E g \in ToolGraphs, continueFrom \in RebuildOptions :
          /\ nodes = g.nodes
          /\ connections = g.connections
          /\ nodeCounter = g.nodeCounter
          /\ issued = [i \in 1..g.nodeCounter |-> NodeId(i)]
          /\ given = [continueFrom |-> continueFrom, before |-> g]
    /\ call = NoCall
    /\ returned = <<>>

\* what the oracle answers in the scripted turns of the build
RebuildResponses == {Finish, AddWebhook, UpdateWebhook}
RebuildChoices == ScriptedChoices(RebuildResponses)

RebuildNext ==
    \/ \E habit \in {"finish", "poll"} :
          StartBuild(given.continueFrom, DEFAULT_MAX_VALIDATION_RETRIES, <<>>, habit)
          /\ UNCHANGED session
    \/ \E response \in RebuildChoices : TurnFinalize(response)
    \/ \E response \in RebuildChoices : TurnToolUse(response)
    \/ OracleThrows
    \/ \E remote \in RemoteAnswers : ExecTool(remote)
    \/ MaxTurns

SpecRebuild == RebuildInit /\ [][RebuildNext]_vars

\* the build has started and its first turn has not
Started == pc = "turn" /\ turnCount = 0

\* the first turn of the build asked for update_node_parameters on "Webhook"
\* and its tools have run
UpdatedByName ==
    /\ pc = "turn"
    /\ turnCount = 1
    /\ Len(messages) = 3
    /\ messages[2].content[1].type = "tool_use"
    /\ messages[2].content[1].name = "update_node_parameters"

\* C25: a build without continueFrom starts from an empty graph with the ID
\* counter at zero, whatever the previous build left; a build with
\* continueFrom starts with exactly the graph the previous build left, so a
\* node added earlier can be updated by its name.
C25_FreshOrContinuedGraph ==
    /\ Started =>
          IF given.continueFrom = <<>>
          THEN Cur = FreshManager /\ issued = <<>>
          ELSE /\ Cur = given.before
               /\ Len(issued) = nodeCounter
    /\ (UpdatedByName /\ HasNode(given.before.nodes, "Webhook")) =>
          IF given.continueFrom = <<>>
          THEN nodes = <<>>
          ELSE /\ getNode(nodes, "Webhook").parameters = [path |-> "hook"]
               /\ getNode(nodes, "Webhook").id = getNode(given.before.nodes, "Webhook").id
               /\ connections = given.before.connections

\* a continuing build, given an empty log, has updated the "Webhook" node of
\* the connected graph it found
C25_Witness ==
    /\ UpdatedByName
    /\ given.continueFrom = <<<<>>>>
    /\ given.before = ConnectedGraph
    /\ getNode(nodes, "Webhook").parameters = [path |-> "hook"]
    /\ Len(nodes) = 2

\* C37: after any sequence of addNode, removeNode, connectNodes,
\* updateNodeParameters and reset, the workflow produced by toN8nWorkflow has
\* pairwise distinct node names and pairwise distinct node ids, and every
\* connections key and every connection target names one of its nodes; the
\* semantic phase of validateWorkflow reports no error for it.
C37_SerializedGraphIsConsistent ==
    \E w \in {toN8nWorkflow(Cur, <<"w">>)} :
        LET names == {w.nodes[i].name : i \in 1..Len(w.nodes)}
        IN  /\ \A i, j \in 1..Len(w.nodes) :
                  i # j => /\ w.nodes[i].name # w.nodes[j].name
                           /\ w.nodes[i].id # w.nodes[j].id
            /\ \A i \in 1..Len(w.connections) :
                  /\ w.connections[i].source \in names
                  /\ \A s \in 1..Len(w.connections[i].main) :
                        \A j \in 1..Len(w.connections[i].main[s]) :
                            w.connections[i].main[s][j].node \in names
            /\ SemanticErrors(w) = <<>>

\* the source of a connection was removed from a connected
\* graph of three nodes, and the two nodes left are still connected by the other edge
C37_Witness ==
    /\ call.op = "removeNode"
    /\ call.ret
    /\ Len(given.before.nodes) = 3
    /\ EdgeCount(given.before.connections) = 2
    /\ Len(nodes) = 2
    /\ EdgeCount(connections) = 1

\* how many target entries the serialized connections of a workflow hold
TargetEntries(w) ==
    LET RECURSIVE InSlots(_, _), InEntries(_)
        InSlots(main, s) == IF s = 0 THEN 0 ELSE Len(main[s]) + InSlots(main, s - 1)
        InEntries(i) ==
            IF i = 0 THEN 0
            ELSE InSlots(w.connections[i].main, Len(w.connections[i].main))
                 + InEntries(i - 1)
    IN  InEntries(Len(w.connections))

\* C38: serialization loses no edge: every edge stored by connectNodes is in
\* the workflow produced by toN8nWorkflow exactly once, as a target entry in
\* slot sourceOutput of its source, and the serialized connections hold as
\* many target entries as there are stored edges.
C38_SerializationLosesNoEdge ==
    \E w \in {toN8nWorkflow(Cur, "W")} :
        /\ TargetEntries(w) = EdgeCount(connections)
        /\ \A e \in 1..Len(connections) :
              \A k \in 1..Len(connections[e].conns) :
                 LET c == connections[e].conns[k]
                     main == w.connections[e].main
                 IN  /\ c.sourceOutput + 1 \in 1..Len(main)
                     /\ Cardinality({j \in 1..Len(main[c.sourceOutput + 1]) :
                                        /\ main[c.sourceOutput + 1][j].node = c.target
                                        /\ main[c.sourceOutput + 1][j].index = c.targetInput})
                           = 1

\* C33: every node held by the State Manager has a typeVersion that is a
\* positive integer, in every state reached through addNode or the add_node
\* tool.
C33_PositiveTypeVersion ==
    \A i \in 1..Len(nodes) : nodes[i].typeVersion \in Nat \ {0}

\* the edges of a workflow as pairs of node names
EdgesOf(workflow) ==
    UNION {UNION {{<<workflow.connections[i].source, workflow.connections[i].main[s][j].node>> :
                      j \in 1..Len(workflow.connections[i].main[s])} :
                    s \in 1..Len(workflow.connections[i].main)} :
             i \in 1..Len(workflow.connections)}

\* some node reaches itself along one or more edges
HasCycle(workflow) ==
    LET edges == EdgesOf(workflow)
        ends == {e[1] : e \in edges} \cup {e[2] : e \in edges}
        RECURSIVE Reach(_, _)
        Reach(from, steps) ==
            IF steps = 0 THEN from
            ELSE Reach(from \cup {e[2] : e \in {d \in edges : d[1] \in from}}, steps - 1)
    IN  \E n \in ends :
            n \in Reach({e[2] : e \in {d \in edges : d[1] = n}}, Cardinality(ends))

\* C34: circular connections are a local validation error: a workflow whose
\* connections contain a cycle is reported invalid by validateWorkflow.
C34_CyclesAreInvalid ==
    (returned # <<>> /\ HasCycle(given)) => ~returned[1].valid

\* C35: BuildResult.validationAttempts is the number of validation attempts
\* made during the build: in every terminal result it equals the number of
\* times the loop ran the validator, the successful validation and the one
\* made when the turn bound is reached included.
C35_AttemptsCountValidatorRuns ==
    pc = "done" => result.validationAttempts = validatorRuns

\* C40: the message history sent to the oracle is well-formed: the roles
\* alternate strictly starting with user, and every tool invocation of an
\* assistant message is answered by a tool result with the same id in the
\* user message that immediately follows it; a corrective retry prompt never
\* comes right after an assistant message that holds unanswered invocations.
C40_WellFormedHistory ==
    pc = "turn" =>
        /\ \A k \in 1..Len(messages) :
              messages[k].role = IF k % 2 = 1 THEN "user" ELSE "assistant"
        /\ \A k \in 1..Len(messages) :
              (messages[k].role = "assistant" /\ ToolUsesOf(k) # <<>>) =>
                  /\ k < Len(messages)
                  /\ messages[k + 1].content[1].type # "retry"
                  /\ AnswersInOrder(k + 1, ToolUsesOf(k))

-----------------------------------------------------------------------------
(* Repairing a graph through the Tool Surface.                             *)

\* how many tool calls a repair may take
MaxRepairCalls == 2

\* the graph holds a node that breaks the node schema
HasBrokenNode(st) == \E i \in 1..Len(st.nodes) : NodeIssues(st.nodes[i], i - 1) # <<>>

\* the last message of the history is the corrective prompt of a retry
RetryAsked ==
    /\ pc = "turn"
    /\ messages # <<>>
    /\ messages[Len(messages)].role = "user"
    /\ messages[Len(messages)].content[1].type = "retry"

\* some sequence of at most calls tool calls, each one any call of the Tool
\* Surface, leads from st to a graph that validateWorkflow finds valid
RECURSIVE Repairable(_, _, _)
Repairable(st, client, calls) ==
    \/ validateWorkflow(toN8nWorkflow(st, "Generated Workflow")).valid
    \/ /\ calls > 0
       /\ \E invocation \in Invocations, remote \in RemoteAnswers :
             \E r \in {executeToolAsync(st, client, invocation.toolName,
                                        invocation.args, remote)} :
                 ~r.threw /\ Repairable(r.st, client, calls - 1)

\* C39: a validation failure answered with a retry can be repaired: when the
\* failure is structural and caused by a node added through add_node, there
\* is a sequence of Tool Surface calls after which the validation of the
\* graph succeeds in the same build.
C39_RetryCanBeRepaired ==
    (RetryAsked /\ HasBrokenNode(Cur)) => Repairable(Cur, n8nClient, MaxRepairCalls)

\* no step of a build takes a broken node out of the graph or mends it
BrokenNodeStays ==
    (pc # "idle" /\ HasBrokenNode(Cur)) => HasBrokenNode(Cur)'

\* a build that holds a broken node never returns success
BrokenNodeNeverSucceeds == [][BrokenNodeStays]_vars

-----------------------------------------------------------------------------
(* The n8n API client examined on its own: the answers of the remote       *)
(* service to the create and to the delete request are given, and one of   *)
(* createWorkflow, deleteWorkflow and validateByCreation is applied.       *)

\* Response.ok
HttpOk(status) == status >= 200 /\ status <= 299

\* Response.statusText
StatusText(status) ==
    CASE status = 200 -> "OK"
      [] status = 201 -> "Created"
      [] status = 204 -> "No Content"
      [] status = 304 -> "Not Modified"
      [] status = 400 -> "Bad Request"
      [] status = 401 -> "Unauthorized"
      [] status = 403 -> "Forbidden"
      [] status = 404 -> "Not Found"
      [] status = 409 -> "Conflict"
      [] status = 422 -> "Unprocessable Entity"
      [] status = 429 -> "Too Many Requests"
      [] status = 500 -> "Internal Server Error"
      [] status = 503 -> "Service Unavailable"

\* a response body: parses says whether response.json() resolves, isObject
\* whether the parsed value is a non-null object; message, error, errors
\* and id are the members of the object, json is JSON.stringify of it
Body(parses, isObject, message, error, errors, id, json) ==
    [parses |-> parses, isObject |-> isObject, message |-> message,
     error |-> error, errors |-> errors, id |-> id, json |-> json]

NoBody == Body(FALSE, FALSE, <<>>, <<>>, <<>>, <<>>, "")
StringBody == Body(TRUE, FALSE, <<>>, <<>>, <<>>, <<>>, "\"Bad Request\"")
MessageBody(text) == Body(TRUE, TRUE, <<text>>, <<>>, <<>>, <<>>, "{\"message\":...}")
ErrorBody(text) == Body(TRUE, TRUE, <<>>, <<text>>, <<>>, <<>>, "{\"error\":...}")
ErrorsBody(items) == Body(TRUE, TRUE, <<>>, <<>>, <<items>>, <<>>, "{\"errors\":[...]}")
CodeBody == Body(TRUE, TRUE, <<>>, <<>>, <<>>, <<>>, "{\"code\":400}")
CreatedBody(id) == Body(TRUE, TRUE, <<>>, <<>>, <<>>, <<id>>, "{\"id\":...}")

\* an answer of the remote service: fetch rejects (transport, with the
\* rejection's message when it is an Error) or resolves with a response
TransportFailure(cause) ==
    [transport |-> TRUE, cause |-> cause, status |-> 0, body |-> NoBody]
HttpResponse(status, body) ==
    [transport |-> FALSE, cause |-> <<>>, status |-> status, body |-> body]

\* message.toLowerCase() of a fragment of a message of the remote service
LowerMessage(f) ==
    CASE f = "Credential not set" -> "credential not set"
      [] f = "OAuth token rejected" -> "oauth token rejected"
      [] f = "API Key is missing" -> "api key is missing"
      [] f = "Authentication required" -> "authentication required"
      [] f = "No TRIGGER node" -> "no trigger node"
      [] f = "Payload too large" -> "payload too large"
      [] f = "Unknown validation error" -> "unknown validation error"
      [] f = "Workflow validation failed: " -> "workflow validation failed: "
      [] OTHER -> f

\* the words of isRecoverableValidationError that a lowercased fragment holds
PatternsIn(fragment) ==
    CASE fragment = "credential not set" -> {"credential"}
      [] fragment = "oauth token rejected" -> {"oauth"}
      [] fragment = "api key is missing" -> {"api key", "missing"}
      [] fragment = "authentication required" -> {"authentication", "required"}
      [] fragment = "must have required property" -> {"required", "property"}
      [] fragment = "no trigger node" -> {"trigger"}
      [] fragment = "unknown validation error" -> {"unknown"}
      [] OTHER -> {}

\* lowerMessage.includes(pattern)
MessageIncludes(message, pattern) ==
    \E i \in 1..Len(message) : pattern \in PatternsIn(LowerMessage(message[i]))

CredentialWords == {"credential", "authentication", "oauth", "api key"}
recoverablePatterns ==
    {"required", "missing", "invalid", "unknown", "not found", "parameter",
     "property", "type", "connection", "trigger"}

\* a test that looks for the recoverable patterns first
isRecoverableValidationError_PatternsFirst(message) ==
    \E pattern \in recoverablePatterns : MessageIncludes(message, pattern)

isRecoverableValidationError(message) ==
    IF \E word \in CredentialWords : MessageIncludes(message, word)
    THEN FALSE
    ELSE \E pattern \in recoverablePatterns : MessageIncludes(message, pattern)

\* errorBody.errors.map((e) => String(e)).join('; ')
JoinErrors(items) ==
    LET part(i) == IF i = 1 THEN <<items[i]>> ELSE <<"; ", items[i]>>
    IN  FlatMap(part, Len(items))

extractValidationMessage(body) ==
    IF body = <<>> \/ ~body[1].isObject
    THEN <<"Unknown validation error">>
    ELSE IF body[1].message # <<>> THEN <<body[1].message[1]>>
    ELSE IF body[1].error # <<>> THEN <<body[1].error[1]>>
    ELSE IF body[1].errors # <<>> /\ Len(body[1].errors[1]) > 0
    THEN JoinErrors(body[1].errors[1])
    ELSE <<body[1].json>>

ApiError(statusCode, message, errorType, recoverable, details) ==
    [statusCode |-> statusCode, message |-> message, errorType |-> errorType,
     recoverable |-> recoverable, details |-> details]

\* the error of a transport failure, which has no details
NetworkError(message) ==
    [statusCode |-> 0, message |-> message, errorType |-> "NETWORK",
     recoverable |-> TRUE]

\* parseError; body is null when response.json() rejects
parseError(response) ==
    LET body == IF response.body.parses THEN <<response.body>> ELSE <<>>
    IN  IF response.status = 401 \/ response.status = 403
        THEN ApiError(response.status,
                      <<"n8n API authentication failed. Check N8N_API_KEY.">>,
                      "AUTHENTICATION", FALSE, body)
        ELSE IF response.status = 400 \/ response.status = 422
        THEN LET message == extractValidationMessage(body)
             IN  ApiError(response.status,
                          <<"Workflow validation failed: ">> \o message,
                          "VALIDATION", isRecoverableValidationError(message), body)
        ELSE IF response.status = 404
        THEN ApiError(404, <<"Workflow not found">>, "NOT_FOUND", FALSE, body)
        ELSE IF response.status = 429
        THEN ApiError(429, <<"Rate limit exceeded. Please wait before retrying.">>,
                      "RATE_LIMIT", TRUE, body)
        ELSE ApiError(response.status,
                      <<"n8n server error: ", StatusText(response.status)>>,
                      "SERVER_ERROR", TRUE, body)

\* a thrown value: isError says whether it is an instance of Error, fields
\* are its own properties
Thrown(isError, fields) == [isError |-> isError, fields |-> fields]

\* what a method of the client did: it threw error or returned value, after
\* the requests it sent
Outcome(threw, error, value, requests, warned) ==
    [threw |-> threw, error |-> error, value |-> value, requests |-> requests,
     warned |-> warned]

WorkflowsPath == <<"/api/v1/workflows">>
\* `/api/v1/workflows/${id}`
WorkflowPath(id) == <<"/api/v1/workflows/", IF id = <<>> THEN "undefined" ELSE id[1]>>

Request(method, path) == [method |-> method, path |-> path]

\* request: the response of fetch, or the plain object networkError thrown
request(remote) ==
    IF remote.transport
    THEN [threw |-> TRUE,
          error |-> <<Thrown(FALSE,
                             NetworkError(<<"Network error: ",
                                            IF remote.cause # <<>>
                                            THEN remote.cause[1]
                                            ELSE "Failed to connect to n8n">>))>>,
          response |-> <<>>]
    ELSE [threw |-> FALSE, error |-> <<>>, response |-> <<remote>>]

\* createWorkflow; parseError returns a plain object, and response.json()
\* rejects with a SyntaxError when the body of an OK response is not JSON
createWorkflow(remote) ==
    LET response == request(remote)
        sent == <<Request("POST", WorkflowsPath)>>
    IN  IF response.threw
        THEN Outcome(TRUE, response.error, <<>>, sent, FALSE)
        ELSE IF ~HttpOk(response.response[1].status)
        THEN Outcome(TRUE, <<Thrown(FALSE, parseError(response.response[1]))>>,
                     <<>>, sent, FALSE)
        ELSE IF ~response.response[1].body.parses
        THEN Outcome(TRUE, <<Thrown(TRUE, [message |-> <<"Unexpected end of JSON input">>])>>,
                     <<>>, sent, FALSE)
        ELSE Outcome(FALSE, <<>>, <<response.response[1].body>>, sent, FALSE)

deleteWorkflow(id, remote) ==
    LET response == request(remote)
        sent == <<Request("DELETE", WorkflowPath(id))>>
    IN  IF response.threw
        THEN Outcome(TRUE, response.error, <<>>, sent, FALSE)
        ELSE IF ~HttpOk(response.response[1].status)
        THEN Outcome(TRUE, <<Thrown(FALSE, parseError(response.response[1]))>>,
                     <<>>, sent, FALSE)
        ELSE Outcome(FALSE, <<>>, <<>>, sent, FALSE)

\* the result of validateByCreation
ValidationResult(valid, error) == [valid |-> valid, error |-> error]

\* the catch clause of validateByCreation
CaughtByValidate(thrown) ==
    IF thrown.isError /\ "statusCode" \in DOMAIN thrown.fields
    THEN ValidationResult(FALSE, <<thrown.fields>>)
    ELSE ValidationResult(FALSE,
                          <<NetworkError(IF thrown.isError
                                         THEN thrown.fields.message
                                         ELSE <<"Unknown error">>)>>)

\* a validation that fails when the temporary workflow cannot be deleted
validateByCreation_DeleteMustSucceed(createAnswer, deleteAnswer) ==
    LET created == createWorkflow(createAnswer)
    IN  IF created.threw
        THEN Outcome(FALSE, <<>>, <<CaughtByValidate(created.error[1])>>,
                     created.requests, FALSE)
        ELSE LET deleted == deleteWorkflow(created.value[1].id, deleteAnswer)
             IN  IF deleted.threw
                 THEN Outcome(FALSE, <<>>, <<CaughtByValidate(deleted.error[1])>>,
                              created.requests \o deleted.requests, FALSE)
                 ELSE Outcome(FALSE, <<>>, <<ValidationResult(TRUE, <<>>)>>,
                              created.requests \o deleted.requests, FALSE)

validateByCreation(createAnswer, deleteAnswer) ==
    LET created == createWorkflow(createAnswer)
    IN  IF created.threw
        THEN Outcome(FALSE, <<>>, <<CaughtByValidate(created.error[1])>>,
                     created.requests, FALSE)
        ELSE LET deleted == deleteWorkflow(created.value[1].id, deleteAnswer)
             IN  Outcome(FALSE, <<>>, <<ValidationResult(TRUE, <<>>)>>,
                         created.requests \o deleted.requests, deleted.threw)

\* the answers of the remote service
OkStatuses == {200, 201}
FailureStatuses == {304, 400, 401, 403, 404, 409, 422, 429, 500, 503}

FailureBodies ==
    {NoBody, StringBody, CodeBody, ErrorsBody(<<>>),
     MessageBody("Credential not set"), MessageBody("API Key is missing"),
     MessageBody("No TRIGGER node"), MessageBody("Payload too large"),
     ErrorBody("OAuth token rejected"), ErrorBody("must have required property"),
     ErrorsBody(<<"must have required property", "Authentication required">>)}

TransportFailures ==
    {TransportFailure(<<"fetch failed">>), TransportFailure(<<>>)}

FailureAnswers ==
    {HttpResponse(status, body) : status \in FailureStatuses, body \in FailureBodies}
        \cup TransportFailures

CreateAnswers ==
    {HttpResponse(status, body) :
        status \in OkStatuses,
        body \in {CreatedBody("wf1"), CreatedBody("wf2"), CodeBody, NoBody}}
        \cup FailureAnswers

DeleteAnswers == {HttpResponse(200, CodeBody), HttpResponse(204, NoBody)} \cup FailureAnswers

\* the answers to the delete request of a validation
CleanupAnswers ==
    {HttpResponse(204, NoBody), HttpResponse(404, MessageBody("Payload too large")),
     HttpResponse(500, NoBody), TransportFailure(<<"fetch failed">>)}

ClientCalls ==
    {[operation |-> "createWorkflow", id |-> <<>>, create |-> c,
      delete |-> HttpResponse(204, NoBody)] : c \in CreateAnswers}
    \cup {[operation |-> "deleteWorkflow", id |-> <<id>>,
           create |-> HttpResponse(200, CreatedBody("wf1")), delete |-> d] :
             id \in {"wf1", "wf2"}, d \in DeleteAnswers}
    \cup {[operation |-> "validateByCreation", id |-> <<>>, create |-> c,
           delete |-> d] : c \in CreateAnswers, d \in CleanupAnswers}

ClientInit ==
    /\ SMInit
    /\ BuildInit
    /\ given \in ClientCalls
    /\ returned = <<>>

CallCreateWorkflow ==
    /\ returned = <<>>
    /\ given.operation = "createWorkflow"
    /\ returned' = <<createWorkflow(given.create)>>
    /\ UNCHANGED <<programVars, given>>

CallDeleteWorkflow ==
    /\ returned = <<>>
    /\ given.operation = "deleteWorkflow"
    /\ returned' = <<deleteWorkflow(given.id, given.delete)>>
    /\ UNCHANGED <<programVars, given>>

CallValidateByCreation ==
    /\ returned = <<>>
    /\ given.operation = "validateByCreation"
    /\ returned' = <<validateByCreation(given.create, given.delete)>>
    /\ UNCHANGED <<programVars, given>>

ClientNext == CallCreateWorkflow \/ CallDeleteWorkflow \/ CallValidateByCreation

SpecClient == ClientInit /\ [][ClientNext]_vars

-----------------------------------------------------------------------------
(* Properties of the n8n API client (SpecClient).                          *)

\* the answer of the remote service to the request of a create or delete call
AnswerOf(c) == IF c.operation = "deleteWorkflow" THEN c.delete ELSE c.create

\* the remote service did not answer the request with an OK response
RemoteFailed(answer) == answer.transport \/ ~HttpOk(answer.status)

\* the error type that goes with a status
ErrorTypeOfStatus(status) ==
    CASE status \in {401, 403} -> "AUTHENTICATION"
      [] status \in {400, 422} -> "VALIDATION"
      [] status = 404 -> "NOT_FOUND"
      [] status = 429 -> "RATE_LIMIT"
      [] OTHER -> "SERVER_ERROR"

\* C36: the error mapping of create and delete is total and deterministic on
\* answers that are not OK: 401 and 403 give AUTHENTICATION (not
\* recoverable), 400 and 422 give VALIDATION (not recoverable when the
\* message mentions credential, authentication, oauth or api key), 404 gives
\* NOT_FOUND (not recoverable), 429 gives RATE_LIMIT (recoverable), every
\* other status gives SERVER_ERROR (recoverable), a transport failure gives
\* NETWORK with statusCode 0 (recoverable); the thrown error carries the
\* status of the response as statusCode.
C36_ErrorMapping ==
    (/\ returned # <<>>
     /\ given.operation \in {"createWorkflow", "deleteWorkflow"}
     /\ RemoteFailed(AnswerOf(given)))
    => /\ returned[1].threw
       /\ LET answer == AnswerOf(given)
              e == returned[1].error[1].fields
          IN  /\ {"statusCode", "message", "errorType", "recoverable"} \subseteq DOMAIN e
              /\ IF answer.transport
                 THEN e.errorType = "NETWORK" /\ e.statusCode = 0 /\ e.recoverable
                 ELSE /\ e.statusCode = answer.status
                      /\ e.errorType = ErrorTypeOfStatus(answer.status)
                      /\ e.errorType \in {"AUTHENTICATION", "NOT_FOUND"} => ~e.recoverable
                      /\ e.errorType \in {"RATE_LIMIT", "SERVER_ERROR"} => e.recoverable
                      /\ (/\ e.errorType = "VALIDATION"
                          /\ \E word \in CredentialWords : MessageIncludes(e.message, word))
                         => ~e.recoverable

\* a create answered with 422 and a message that mentions an api key and a
\* missing value has thrown a VALIDATION error that is not recoverable
C36_Witness ==
    /\ returned # <<>>
    /\ given.operation = "createWorkflow"
    /\ given.create = HttpResponse(422, MessageBody("API Key is missing"))
    /\ returned[1].threw
    /\ returned[1].error[1].fields.errorType = "VALIDATION"
    /\ returned[1].error[1].fields.statusCode = 422
    /\ ~returned[1].error[1].fields.recoverable

\* the typed error of an answer that is not OK
TypedErrorOf(answer) == createWorkflow(answer).error[1].fields

\* C31: when the create request of validateByCreation fails, the validation
\* returns valid = false with the typed error of that failure: the status
\* of the response as statusCode with its error type and recoverable flag,
\* and NETWORK with statusCode 0 only for a transport failure, with the
\* original message.
C31_ValidateReturnsTypedError ==
    (/\ returned # <<>>
     /\ given.operation = "validateByCreation"
     /\ RemoteFailed(given.create))
    => /\ ~returned[1].threw
       /\ ~returned[1].value[1].valid
       /\ returned[1].value[1].error # <<>>
       /\ LET e == returned[1].value[1].error[1]
              typed == TypedErrorOf(given.create)
          IN  /\ e.statusCode = typed.statusCode
              /\ e.errorType = typed.errorType
              /\ e.recoverable = typed.recoverable
              /\ e.message = typed.message
              /\ e.errorType = "NETWORK" => given.create.transport

\* a validation never reports another error than the NETWORK error with the
\* message 'Unknown error' when the remote service does not answer the
\* create request with an OK response
ValidateReportsUnknownError ==
    (/\ returned # <<>>
     /\ given.operation = "validateByCreation"
     /\ RemoteFailed(given.create))
    => returned[1].value[1] =
          ValidationResult(FALSE, <<NetworkError(<<"Unknown error">>)>>)

\* the create request was answered with an OK response whose body is JSON
CreateSucceeded(answer) ==
    ~answer.transport /\ HttpOk(answer.status) /\ answer.body.parses

\* C32: validateByCreation is create-then-immediately-delete: the delete is
\* requested only after the create succeeded, exactly once and with the id
\* that the create returned; when the create fails, no delete is requested;
\* the result is valid exactly when the create succeeded, also when the
\* delete fails.
C32_CreateThenDelete ==
    (returned # <<>> /\ given.operation = "validateByCreation")
    => LET sent == returned[1].requests
           deletes == {i \in 1..Len(sent) : sent[i].method = "DELETE"}
       IN  /\ ~returned[1].threw
           /\ Len(sent) >= 1
           /\ sent[1] = Request("POST", WorkflowsPath)
           /\ returned[1].value[1].valid <=> CreateSucceeded(given.create)
           /\ IF CreateSucceeded(given.create)
              THEN /\ Len(sent) = 2
                   /\ deletes = {2}
                   /\ sent[2].path = WorkflowPath(given.create.body.id)
              ELSE deletes = {} /\ Len(sent) = 1

\* a validation whose create returned the id wf2 and whose delete was
\* answered with status 500 is valid, after one delete of wf2
C32_Witness ==
    /\ returned # <<>>
    /\ given.operation = "validateByCreation"
    /\ given.create = HttpResponse(201, CreatedBody("wf2"))
    /\ given.delete = HttpResponse(500, NoBody)
    /\ returned[1].value[1].valid
    /\ returned[1].warned
    /\ returned[1].requests =
          <<Request("POST", WorkflowsPath),
            Request("DELETE", <<"/api/v1/workflows/", "wf2">>)>>

====
